---- MODULE Spec2Model ----
(***************************************************************************)
(* MediSync drug interaction checker: backend/interaction_checker.py and   *)
(* backend/dosage_contraindications.py as a state machine.                 *)
(*                                                                         *)
(* Encoding of Python values:                                              *)
(*   str            a sequence of one-character strings                    *)
(*   dict           a function; {} is the function with empty domain       *)
(*   list           a sequence                                             *)
(*   X | None       a sequence of at most one element: <<>> is None        *)
(*   dict item list a sequence of records [key, value] (JSON object order) *)
(***************************************************************************)
EXTENDS Integers, Sequences, FiniteSets, TLC

VARIABLES
    data_file,                  \* content of data/drug_interactions.json
    dosage_file,                \* content of data/drug_dosage_limits.json, None when missing
    contra_file,                \* content of data/drug_contraindications.json, None when missing
    interactions_cache,         \* _interactions_cache
    lower_to_canonical_cache,   \* _lower_to_canonical_cache
    dosage_cache,               \* _dosage_cache
    contraindication_cache,     \* _contraindication_cache
    drug_list,                  \* argument of check_drug_interactions
    drug_doses,                 \* argument, None when absent
    patient_context,            \* argument, None when absent
    pc,                         \* position inside check_drug_interactions
    interactions,               \* local: the interaction map in use
    lower_to_canonical,         \* local: the name index in use
    idx,                        \* local: number of entries of drug_list validated
    normalized,                 \* local
    unique_drugs,               \* local
    pairs,                      \* local: the combinations not yet processed
    acc,                        \* local: the accumulators of the pair loop
    lookups,                    \* number of _lookup_interaction calls made by this call
    result,                     \* return value, None until the call returns
    drug_list2,                 \* a second call's drug list (two-call specifications)
    result2,                    \* the second call's return value
    counts,                     \* arguments of a direct _overall_risk call
    risk,                       \* its return value, None until it returns
    pass_result,                \* return value of a direct call of one of the two passes
    service,                    \* the API process: "starting", "ready" or "failed"
    request,                    \* the last HTTP request received, None before the first
    response,                   \* the response to it
    backend_calls,              \* name-index and aggregator calls made while handling it
    ratio,                      \* (known_pairs, total_pairs) of a direct confidence computation
    confidence,                 \* its result, None until computed
    reads,                      \* reads of each data file made by the store operations
    procs                       \* the concurrent callers of get_cached_data, by thread

vars == <<data_file, dosage_file, contra_file, interactions_cache,
          lower_to_canonical_cache, dosage_cache, contraindication_cache,
          drug_list, drug_doses, patient_context, pc, interactions,
          lower_to_canonical, idx, normalized, unique_drugs, pairs, acc,
          lookups, result, drug_list2, result2, counts, risk, pass_result,
          service, request, response, backend_calls, ratio, confidence,
          reads, procs>>

\* the variables of the API process and of the direct confidence computation
api_vars == <<service, request, response, backend_calls>>
ratio_vars == <<ratio, confidence>>

\* the variables of the store operations and of the concurrent callers
lazy_vars == <<reads, procs>>

----------------------------------------------------------------------------
(* Bounds of the model *)

\* longest drug list drawn from RawEntries
MaxLen == 3
\* largest count passed to a direct _overall_risk call
MaxCount == 4
\* longest drug_doses list
MaxDoses == 2

----------------------------------------------------------------------------
(* Python builtins *)

None == <<>>
Some(v) == <<v>>

UpperChars == <<"A","B","C","D","E","F","G","H","I","J","K","L","M",
                "N","O","P","Q","R","S","T","U","V","W","X","Y","Z">>
LowerChars == <<"a","b","c","d","e","f","g","h","i","j","k","l","m",
                "n","o","p","q","r","s","t","u","v","w","x","y","z">>

LowerChar(c) ==
    IF \E k \in DOMAIN UpperChars : UpperChars[k] = c
    THEN LowerChars[CHOOSE k \in DOMAIN UpperChars : UpperChars[k] = c]
    ELSE c

\* str.lower()
lower(s) == [k \in DOMAIN s |-> LowerChar(s[k])]

\* str.strip(): remove leading and trailing blanks
RECURSIVE strip(_)
strip(s) ==
    IF s = <<>> THEN s
    ELSE IF Head(s) = " " THEN strip(Tail(s))
    ELSE IF s[Len(s)] = " " THEN strip(SubSeq(s, 1, Len(s) - 1))
    ELSE s

\* the largest element of a non-empty set of integers
MaxOf(S) == CHOOSE m \in S : \A o \in S : o <= m

\* dict(items): the last item of a key wins
DictOf(items) ==
    [key \in {items[k].key : k \in DOMAIN items} |->
        items[MaxOf({k \in DOMAIN items : items[k].key = key})].value]

\* d.get(key), None when the key is absent
Get(d, key) == IF key \in DOMAIN d THEN Some(d[key]) ELSE None

----------------------------------------------------------------------------
(* Program constants *)

\* SEVERITY_SCORE
SEVERITY_SCORE == [Mild |-> 1, Moderate |-> 2, Severe |-> 3]

MIN_DRUGS == 2
MAX_DRUGS == 10

----------------------------------------------------------------------------
(* Python scalars that may be of any type: a tagged record *)

Str(s) == [t |-> "str", s |-> s]
Num(n) == [t |-> "num", n |-> n]
Bool(b) == [t |-> "bool", b |-> b]
PyNone == [t |-> "none"]

\* truth value of a Python scalar
Truthy(v) ==
    CASE v.t = "str" -> v.s # <<>>
      [] v.t = "num" -> v.n # 0
      [] v.t = "bool" -> v.b
      [] OTHER -> FALSE

----------------------------------------------------------------------------
(* Drug names of the data sources *)

Ibuprofen == <<"I","b">>
Warfarin == <<"W","a">>
Digoxin == <<"D","i">>
Atorvastatin == <<"A","t">>
Metformin == <<"M","e">>
Aspirin == <<"A","s">>
Lisinopril == <<"L","i">>
Potassium == <<"P","o">>
Amoxicillin == <<"A","m">>
Omeprazole == <<"O","m">>
Clopidogrel == <<"C","l">>
ContrastDye == <<"C"," ","d">>

\* a description of n characters
Desc(n) == [k \in 1..n |-> "x"]

\* an interaction entry as the data preparation script writes it
Entry(severity, description) == [severity |-> severity, description |-> description]

\* rows (drug, drug, entry) of a symmetric data source
SampleRows ==
    << <<Ibuprofen, Warfarin, Entry("Moderate", Desc(3))>>,
       <<Ibuprofen, Digoxin, Entry("Moderate", Desc(2))>>,
       <<Atorvastatin, Digoxin, Entry("Mild", Desc(150))>>,
       <<Atorvastatin, Metformin, Entry("Mild", <<>>)>>,
       <<Digoxin, Metformin, Entry("Mild", Desc(152))>>,
       <<Metformin, Warfarin, Entry("Critical", Desc(1))>>,
       <<Metformin, Ibuprofen, Entry("Major", Desc(1))>>,
       <<Atorvastatin, Ibuprofen, [description |-> Desc(4)]>>,
       <<Atorvastatin, Warfarin, [severity |-> "Severe"]>>,
       <<Aspirin, Warfarin, Entry("Severe", Desc(1))>>,
       <<Aspirin, Ibuprofen, Entry("Moderate", Desc(1))>>,
       <<Lisinopril, Potassium, Entry("Moderate", Desc(1))>>,
       <<Amoxicillin, Omeprazole, Entry("Moderate", Desc(1))>>,
       <<Omeprazole, Clopidogrel, Entry("Moderate", Desc(1))>>,
       <<Metformin, ContrastDye, Entry("Moderate", Desc(1))>> >>

\* the names of the rows in order of first appearance
RECURSIVE FirstSeen(_, _)
FirstSeen(names, out) ==
    IF names = <<>> THEN out
    ELSE IF \E k \in DOMAIN out : out[k] = Head(names)
         THEN FirstSeen(Tail(names), out)
         ELSE FirstSeen(Tail(names), Append(out, Head(names)))

\* build_sample / build_from_csv: every row is stored as A -> B and as B -> A
\* with the same entry; a later row of the same pair overwrites an earlier one
BuildItems(rows) ==
    LET flat == [k \in 1..(2 * Len(rows)) |->
                    IF k % 2 = 1 THEN rows[(k + 1) \div 2][1] ELSE rows[k \div 2][2]]
        keys == FirstSeen(flat, <<>>)
        rowsOf(a, b) == {k \in DOMAIN rows :
                            \/ rows[k][1] = a /\ rows[k][2] = b
                            \/ rows[k][1] = b /\ rows[k][2] = a}
        partners(a) == {b \in {flat[k] : k \in DOMAIN flat} : rowsOf(a, b) # {}}
    IN  [k \in DOMAIN keys |->
            [key |-> keys[k],
             value |-> [b \in partners(keys[k]) |-> rows[MaxOf(rowsOf(keys[k], b))][3]]]]

\* a data source written by the data preparation script
SampleItems == BuildItems(SampleRows)

\* a hand-authored data source: the two directions of Ibuprofen/Warfarin
\* disagree, Ibuprofen -> Digoxin and Atorvastatin -> Digoxin are stored one
\* way only, "AT" and "At" differ only in case, " Me" is authored with a blank
AuthoredItems ==
    << [key |-> Ibuprofen,
        value |-> (Warfarin :> Entry("Mild", Desc(1))) @@ (Digoxin :> Entry("Moderate", Desc(2)))],
       [key |-> Warfarin, value |-> (Ibuprofen :> Entry("Severe", Desc(3)))],
       [key |-> Digoxin, value |-> <<>>],
       [key |-> Atorvastatin, value |-> (Digoxin :> Entry("Mild", Desc(1)))],
       [key |-> <<"A","T">>,
        value |-> (Digoxin :> Entry("Severe", Desc(1))) @@ (Ibuprofen :> Entry("Mild", <<>>))],
       [key |-> <<" ","M","e">>, value |-> (Ibuprofen :> Entry("Moderate", Desc(1)))] >>

\* the states of data/drug_interactions.json
DataFiles ==
    { [state |-> "ok", items |-> SampleItems],
      [state |-> "ok", items |-> AuthoredItems],
      [state |-> "missing"],
      [state |-> "malformed"] }

----------------------------------------------------------------------------
(* Interaction store *)

\* load_interaction_data: raises when the file is missing (FileNotFoundError)
\* or cannot be parsed (json.load raises), else returns the
\* interaction map and the index {name.lower(): name}
load_interaction_data(file) ==
    IF file.state # "ok" THEN [raised |-> TRUE]
    ELSE [raised |-> FALSE,
          interactions |-> DictOf(file.items),
          lower_to_canonical |->
              DictOf([k \in DOMAIN file.items |->
                         [key |-> lower(file.items[k].key), value |-> file.items[k].key]])]

\* interactions.get(drug_a, {}).get(drug_b)
LookupDirected(m, drug_a, drug_b) ==
    IF drug_a \in DOMAIN m /\ drug_b \in DOMAIN m[drug_a]
    THEN Some(m[drug_a][drug_b]) ELSE None

\* _lookup_interaction
lookup_interaction(m, drug_a, drug_b) ==
    LET entry == LookupDirected(m, drug_a, drug_b)
    IN  IF entry # None THEN entry ELSE LookupDirected(m, drug_b, drug_a)

\* _overall_risk without the escalation step
OverallRiskNoEscalation(mild_count, moderate_count, severe_count) ==
    IF severe_count >= 1 THEN "Severe"
    ELSE IF moderate_count >= 1 THEN "Moderate"
    ELSE "Mild"

\* _overall_risk with the base tier taken from moderate_count alone
OverallRiskIgnoringSevere(mild_count, moderate_count, severe_count) ==
    LET base == IF moderate_count >= 1 THEN "Moderate" ELSE "Mild"
    IN  IF base = "Mild" /\ mild_count >= 3 THEN "Moderate"
        ELSE IF base = "Moderate" /\ moderate_count >= 2 THEN "Severe"
        ELSE base

\* _overall_risk escalating a Moderate base on exactly two Moderate pairs
OverallRiskExactlyTwo(mild_count, moderate_count, severe_count) ==
    LET base == IF severe_count >= 1 THEN "Severe"
                ELSE IF moderate_count >= 1 THEN "Moderate"
                ELSE "Mild"
    IN  IF base = "Mild" /\ mild_count >= 3 THEN "Moderate"
        ELSE IF base = "Moderate" /\ moderate_count = 2 THEN "Severe"
        ELSE base

\* _overall_risk
overall_risk(mild_count, moderate_count, severe_count) ==
    LET base == IF severe_count >= 1 THEN "Severe"
                ELSE IF moderate_count >= 1 THEN "Moderate"
                ELSE "Mild"
    IN  IF base = "Mild" /\ mild_count >= 3 THEN "Moderate"
        ELSE IF base = "Moderate" /\ moderate_count >= 2 THEN "Severe"
        ELSE base

\* _confidence_level with the High threshold exclusive
ConfidenceLevelStrict(confidence_percentage) ==
    IF confidence_percentage > 80 * 100 THEN "High"
    ELSE IF confidence_percentage >= 50 * 100 THEN "Medium"
    ELSE "Low"

\* _confidence_level; the percentage is held in hundredths of a percent
confidence_level(confidence_percentage) ==
    IF confidence_percentage >= 80 * 100 THEN "High"
    ELSE IF confidence_percentage >= 50 * 100 THEN "Medium"
    ELSE "Low"

\* _build_risk_explanation with the caveat never appended
BuildRiskExplanationNoCaveat(overall, unknown_pairs) ==
    [base |-> overall, caveat |-> FALSE]

\* _build_risk_explanation: the text for the tier and whether the caveat is appended
build_risk_explanation(overall, unknown_pairs) ==
    [base |-> overall, caveat |-> unknown_pairs > 0]

\* _build_recommendation: the text is keyed by the tier
build_recommendation(overall) == overall

----------------------------------------------------------------------------
(* Interaction aggregator: the steps of check_drug_interactions *)

\* init_interaction_data with a failed load taken as an empty data source
InitInteractionDataLenient(icache, lcache, file) ==
    IF icache # None THEN [raised |-> FALSE, icache |-> icache, lcache |-> lcache]
    ELSE LET loaded == load_interaction_data(file)
         IN  IF loaded.raised THEN [raised |-> FALSE, icache |-> Some(<<>>), lcache |-> Some(<<>>)]
             ELSE [raised |-> FALSE,
                   icache |-> Some(loaded.interactions),
                   lcache |-> Some(loaded.lower_to_canonical)]

\* init_interaction_data: load when the map is unset
init_interaction_data(icache, lcache, file) ==
    IF icache # None THEN [raised |-> FALSE, icache |-> icache, lcache |-> lcache]
    ELSE LET loaded == load_interaction_data(file)
         IN  IF loaded.raised THEN [raised |-> TRUE, icache |-> icache, lcache |-> lcache]
             ELSE [raised |-> FALSE,
                   icache |-> Some(loaded.interactions),
                   lcache |-> Some(loaded.lower_to_canonical)]

\* get_cached_data
get_cached_data(icache, lcache, file) ==
    IF icache = None \/ lcache = None
    THEN init_interaction_data(icache, lcache, file)
    ELSE [raised |-> FALSE, icache |-> icache, lcache |-> lcache]

\* the validation loop body with an unresolved entry skipped instead of failing
ValidateEntrySkipUnresolved(norm, d, ltc) ==
    IF d.t # "str" THEN [error |-> FALSE, normalized |-> norm]
    ELSE LET raw == strip(d.s)
             key == Get(ltc, lower(raw))
         IN  IF raw = <<>> \/ key = None THEN [error |-> FALSE, normalized |-> norm]
             ELSE [error |-> FALSE, normalized |-> Append(norm, key[1])]

\* the validation loop body with the entry looked up without strip()
ValidateEntryNoStrip(norm, d, ltc) ==
    IF d.t # "str" THEN [error |-> FALSE, normalized |-> norm]
    ELSE LET raw == d.s
             key == Get(ltc, lower(raw))
         IN  IF strip(raw) = <<>> THEN [error |-> FALSE, normalized |-> norm]
             ELSE IF key = None THEN [error |-> TRUE, normalized |-> norm]
             ELSE [error |-> FALSE, normalized |-> Append(norm, key[1])]

\* the validation loop body for one entry d: skip a non-string or blank entry,
\* fail on an unresolved one, else append the canonical name
ValidateEntry(norm, d, ltc) ==
    IF d.t # "str" THEN [error |-> FALSE, normalized |-> norm]
    ELSE LET raw == strip(d.s)
             key == Get(ltc, lower(raw))
         IN  IF raw = <<>> THEN [error |-> FALSE, normalized |-> norm]
             ELSE IF key = None THEN [error |-> TRUE, normalized |-> norm]
             ELSE [error |-> FALSE, normalized |-> Append(norm, key[1])]

\* the deduplication loop
RECURSIVE DedupLoop(_, _, _)
DedupLoop(rest, seen, unique) ==
    IF rest = <<>> THEN unique
    ELSE IF Head(rest) \in seen THEN DedupLoop(Tail(rest), seen, unique)
    ELSE DedupLoop(Tail(rest), seen \cup {Head(rest)}, Append(unique, Head(rest)))

\* deduplication left out
NoDeduplicate(norm) == norm

\* deduplicate while preserving order
Deduplicate(norm) == DedupLoop(norm, {}, <<>>)

ErrNotFound == [error |-> "Drug not found in database"]
ErrTooFew == [error |-> "At least two valid drugs are required."]
ErrTooMany == [error |-> "Maximum 10 drugs allowed per request."]

\* the count check: the error to return, None when the count is accepted
CountCheck(unique) ==
    IF Len(unique) < MIN_DRUGS THEN Some(ErrTooFew)
    ELSE IF Len(unique) > MAX_DRUGS THEN Some(ErrTooMany)
    ELSE None

\* itertools.combinations with every ordered pair of distinct positions
RECURSIVE OrderedPairs(_)
OrderedPairs(s) ==
    IF Len(s) < 2 THEN <<>>
    ELSE [k \in 1..(Len(s) - 1) |-> <<s[1], s[k + 1]>>]
         \o [k \in 1..(Len(s) - 1) |-> <<s[k + 1], s[1]>>]
         \o OrderedPairs(Tail(s))

\* itertools.combinations(s, 2): the pairs (s[i], s[j]), i < j, in lexicographic order
RECURSIVE combinations(_)
combinations(s) ==
    IF Len(s) < 2 THEN <<>>
    ELSE [k \in 1..(Len(s) - 1) |-> <<s[1], s[k + 1]>>] \o combinations(Tail(s))

SEVERITY_COLORS ==
    [Mild |-> "#22c55e", Moderate |-> "#f59e0b", Severe |-> "#ef4444", Unknown |-> "#6b7280"]

\* "No interaction data available in the current database."
NoDataDescription == <<"n","o"," ","d","a","t","a">>

\* the accumulators before the pair loop
InitAcc ==
    [pair_results |-> <<>>, graph_edges |-> <<>>, interactions_not_found |-> <<>>,
     total_score |-> 0, mild_count |-> 0, moderate_count |-> 0, severe_count |-> 0,
     known_pairs |-> 0, unknown_pairs |-> 0,
     highest_risk_pair |-> None, highest_severity_value |-> 0]

\* the severity reported for a found entry without the Critical -> Severe step
NormalizeSeverityKeepCritical(entry) ==
    LET severity == IF "severity" \in DOMAIN entry THEN entry.severity ELSE "Moderate"
    IN  IF severity \notin DOMAIN SEVERITY_SCORE THEN "Moderate" ELSE severity

\* the severity reported for a found entry
NormalizeSeverity(entry) ==
    LET raw_severity == IF "severity" \in DOMAIN entry THEN entry.severity ELSE "Moderate"
        severity == IF raw_severity = "Critical" THEN "Severe" ELSE raw_severity
    IN  IF severity \notin DOMAIN SEVERITY_SCORE THEN "Moderate" ELSE severity

\* the branch for a found entry with the score left unchanged
KnownPairUnscored(a, entry, drug_a, drug_b) ==
    LET severity == NormalizeSeverity(entry)
    IN  [a EXCEPT
            !.known_pairs = @ + 1,
            !.mild_count = IF severity = "Mild" THEN @ + 1 ELSE @,
            !.moderate_count = IF severity = "Moderate" THEN @ + 1 ELSE @,
            !.severe_count = IF severity = "Severe" THEN @ + 1 ELSE @,
            !.pair_results = Append(@,
                [drugA |-> drug_a, drugB |-> drug_b, severity |-> severity,
                 severity_score |-> Some(SEVERITY_SCORE[severity]), description |-> <<>>])]

\* the branch for a found entry with the edge description left uncut
KnownPairFullDescription(a, entry, drug_a, drug_b) ==
    LET severity == NormalizeSeverity(entry)
        description == IF "description" \in DOMAIN entry THEN entry.description ELSE <<>>
        weight == SEVERITY_SCORE[severity]
        higher == weight > a.highest_severity_value
    IN  [a EXCEPT
            !.total_score = @ + weight,
            !.mild_count = IF severity = "Mild" THEN @ + 1 ELSE @,
            !.moderate_count = IF severity = "Moderate" THEN @ + 1 ELSE @,
            !.severe_count = IF severity = "Severe" THEN @ + 1 ELSE @,
            !.known_pairs = @ + 1,
            !.pair_results = Append(@,
                [drugA |-> drug_a, drugB |-> drug_b, severity |-> severity,
                 severity_score |-> Some(weight), description |-> description]),
            !.graph_edges = Append(@,
                [source |-> drug_a, target |-> drug_b, severity |-> severity,
                 weight |-> weight, color |-> SEVERITY_COLORS[severity],
                 description |-> description]),
            !.highest_severity_value = IF higher THEN weight ELSE @,
            !.highest_risk_pair =
                IF higher
                THEN Some([drugA |-> drug_a, drugB |-> drug_b, severity |-> severity,
                           weight |-> weight, description |-> description])
                ELSE @]

\* the branch for a found entry with a pair of equal weight taking over
KnownPairLastWins(a, entry, drug_a, drug_b) ==
    LET severity == NormalizeSeverity(entry)
        description == IF "description" \in DOMAIN entry THEN entry.description ELSE <<>>
        weight == SEVERITY_SCORE[severity]
        higher == weight >= a.highest_severity_value
    IN  [a EXCEPT
            !.total_score = @ + weight,
            !.mild_count = IF severity = "Mild" THEN @ + 1 ELSE @,
            !.moderate_count = IF severity = "Moderate" THEN @ + 1 ELSE @,
            !.severe_count = IF severity = "Severe" THEN @ + 1 ELSE @,
            !.known_pairs = @ + 1,
            !.pair_results = Append(@,
                [drugA |-> drug_a, drugB |-> drug_b, severity |-> severity,
                 severity_score |-> Some(weight), description |-> description]),
            !.graph_edges = Append(@,
                [source |-> drug_a, target |-> drug_b, severity |-> severity,
                 weight |-> weight, color |-> SEVERITY_COLORS[severity],
                 description |->
                    SubSeq(description, 1,
                           IF Len(description) < 150 THEN Len(description) ELSE 150)]),
            !.highest_severity_value = IF higher THEN weight ELSE @,
            !.highest_risk_pair =
                IF higher
                THEN Some([drugA |-> drug_a, drugB |-> drug_b, severity |-> severity,
                           weight |-> weight, description |-> description])
                ELSE @]

\* lines 195-234: the branch of the pair loop for a found entry
KnownPair(a, entry, drug_a, drug_b) ==
    LET severity == NormalizeSeverity(entry)
        description == IF "description" \in DOMAIN entry THEN entry.description ELSE <<>>
        weight == SEVERITY_SCORE[severity]
        higher == weight > a.highest_severity_value
    IN  [a EXCEPT
            !.total_score = @ + weight,
            !.mild_count = IF severity = "Mild" THEN @ + 1 ELSE @,
            !.moderate_count = IF severity = "Moderate" THEN @ + 1 ELSE @,
            !.severe_count = IF severity = "Severe" THEN @ + 1 ELSE @,
            !.known_pairs = @ + 1,
            !.pair_results = Append(@,
                [drugA |-> drug_a, drugB |-> drug_b, severity |-> severity,
                 severity_score |-> Some(weight), description |-> description]),
            !.graph_edges = Append(@,
                [source |-> drug_a, target |-> drug_b, severity |-> severity,
                 weight |-> weight, color |-> SEVERITY_COLORS[severity],
                 description |->
                    SubSeq(description, 1,
                           IF Len(description) < 150 THEN Len(description) ELSE 150)]),
            !.highest_severity_value = IF higher THEN weight ELSE @,
            !.highest_risk_pair =
                IF higher
                THEN Some([drugA |-> drug_a, drugB |-> drug_b, severity |-> severity,
                           weight |-> weight, description |-> description])
                ELSE @]

\* the branch for a missing entry with the pair left uncounted
UnknownPairUncounted(a, drug_a, drug_b) ==
    [a EXCEPT
        !.pair_results = Append(@,
            [drugA |-> drug_a, drugB |-> drug_b, severity |-> "Unknown",
             severity_score |-> None, description |-> NoDataDescription]),
        !.interactions_not_found = Append(@,
            [drugA |-> drug_a, drugB |-> drug_b, description |-> NoDataDescription])]

\* lines 235-248: the branch of the pair loop for a missing entry
UnknownPair(a, drug_a, drug_b) ==
    [a EXCEPT
        !.unknown_pairs = @ + 1,
        !.pair_results = Append(@,
            [drugA |-> drug_a, drugB |-> drug_b, severity |-> "Unknown",
             severity_score |-> None, description |-> NoDataDescription]),
        !.interactions_not_found = Append(@,
            [drugA |-> drug_a, drugB |-> drug_b, description |-> NoDataDescription])]

\* the pair loop body for the pair (drug_a, drug_b)
ProcessPair(a, m, drug_a, drug_b) ==
    LET entry == lookup_interaction(m, drug_a, drug_b)
    IN  IF entry # None THEN KnownPair(a, entry[1], drug_a, drug_b)
        ELSE UnknownPair(a, drug_a, drug_b)

\* round(num / den * scale, 2) in hundredths, ties to even
RoundRatio(num, den, scale) ==
    LET q == (num * scale * 100) \div den
        r == (num * scale * 100) % den
    IN  IF 2 * r > den \/ (2 * r = den /\ q % 2 = 1) THEN q + 1 ELSE q

\* line 251: round((known_pairs / total_pairs) * 100, 2) if total_pairs > 0
\* else 100.0, in hundredths of a percent
ConfidencePercentage(known_pairs, total_pairs) ==
    IF total_pairs > 0 THEN RoundRatio(known_pairs, total_pairs, 100) ELSE 100 * 100

\* the report assembled after the pair loop (lines 250-280)
BuildResult(a, unique) ==
    LET n == Len(unique)
        total_pairs == (n * (n - 1)) \div 2
        overall == overall_risk(a.mild_count, a.moderate_count, a.severe_count)
        confidence_percentage == ConfidencePercentage(a.known_pairs, total_pairs)
        report ==
            [pair_results |-> a.pair_results,
             graph_data |-> [nodes |-> [k \in DOMAIN unique |-> [id |-> unique[k]]],
                             edges |-> a.graph_edges,
                             severity_color_map |-> SEVERITY_COLORS],
             total_pairs |-> total_pairs,
             known_pairs |-> a.known_pairs,
             unknown_pairs |-> a.unknown_pairs,
             interactions_not_found |-> a.interactions_not_found,
             confidence_percentage |-> confidence_percentage,
             confidence_level |-> confidence_level(confidence_percentage),
             graph_density |->
                IF total_pairs > 0 THEN RoundRatio(a.known_pairs, total_pairs, 1) ELSE 100,
             total_score |-> a.total_score,
             mild_count |-> a.mild_count,
             moderate_count |-> a.moderate_count,
             severe_count |-> a.severe_count,
             overall_risk |-> overall,
             severity_score_map |-> SEVERITY_SCORE,
             highest_risk_pair |->
                IF a.highest_risk_pair # None THEN a.highest_risk_pair[1] ELSE <<>>,
             risk_explanation |-> build_risk_explanation(overall, a.unknown_pairs),
             recommendation |-> build_recommendation(overall)]
    IN  IF a.unknown_pairs > 0
        THEN report @@ [warning |-> "Some drug pairs are missing interaction data."]
        ELSE report

----------------------------------------------------------------------------
(* Dosage and contraindication stores *)

\* _load_json: {} when the file is missing or cannot be parsed
load_json(file) == IF file.state = "ok" THEN file.content ELSE <<>>

\* load_dosage_limits reading the file on every call
LoadDosageLimitsAlways(cache, file) == Some(load_json(file))

\* load_dosage_limits: the cache after the call
load_dosage_limits(cache, file) == IF cache = None THEN Some(load_json(file)) ELSE cache

\* load_contraindications: the cache after the call
load_contraindications(cache, file) == IF cache = None THEN Some(load_json(file)) ELSE cache

DigitChars == <<"0","1","2","3","4","5","6","7","8","9">>

IsDigit(c) == \E k \in DOMAIN DigitChars : DigitChars[k] = c

DigitValue(c) == (CHOOSE k \in DOMAIN DigitChars : DigitChars[k] = c) - 1

\* the number written by a sequence of decimal digits
RECURSIVE DecimalValue(_)
DecimalValue(s) ==
    IF s = <<>> THEN 0
    ELSE 10 * DecimalValue(SubSeq(s, 1, Len(s) - 1)) + DigitValue(s[Len(s)])

\* float(v): Some(number), or None when float raises TypeError or ValueError.
\* Numbers are whole milligrams; a string is parsed when, blanks stripped, it
\* is a non-empty run of decimal digits.
Float(v) ==
    CASE v.t = "num" -> Some(v.n)
      [] v.t = "bool" -> Some(IF v.b THEN 1 ELSE 0)
      [] v.t = "str" ->
            LET digits == strip(v.s)
            IN  IF digits # <<>> /\ \A k \in DOMAIN digits : IsDigit(digits[k])
                THEN Some(DecimalValue(digits)) ELSE None
      [] OTHER -> None

\* item.get("drug") or item.get("name") or ""
DoseItemName(d) ==
    LET drug == IF "drug" \in DOMAIN d THEN d.drug ELSE PyNone
        name == IF "name" \in DOMAIN d THEN d.name ELSE PyNone
    IN  IF Truthy(drug) THEN drug ELSE IF Truthy(name) THEN name ELSE Str(<<>>)

\* item.get("daily_mg", item.get("daily_dose", 0))
DoseItemValue(d) ==
    IF "daily_mg" \in DOMAIN d THEN d.daily_mg
    ELSE IF "daily_dose" \in DOMAIN d THEN d.daily_dose
    ELSE Num(0)

\* the dosage loop body with the limit itself reported as exceeded
DoseItemStepAtLimit(item, ltc, limits) ==
    IF item.t # "dict" \/ DoseItemName(item.d).t # "str" THEN [raised |-> TRUE, warning |-> None]
    ELSE LET drug_name == strip(DoseItemName(item.d).s)
             daily_mg == Float(DoseItemValue(item.d))
             resolved == Get(ltc, lower(drug_name))
             canonical == IF resolved # None THEN resolved[1] ELSE drug_name
             limit_entry == IF canonical \in DOMAIN limits THEN limits[canonical] ELSE <<>>
             max_mg == IF "max_daily_mg" \in DOMAIN limit_entry
                       THEN Float(limit_entry.max_daily_mg) ELSE None
         IN  IF drug_name # <<>> /\ daily_mg # None /\ max_mg # None /\ daily_mg[1] >= max_mg[1]
             THEN [raised |-> FALSE,
                   warning |-> Some([drug |-> canonical, daily_mg |-> daily_mg[1],
                                     max_daily_mg |-> max_mg[1], unit |-> "mg",
                                     message |-> <<daily_mg[1], "mg", max_mg[1], canonical>>])]
             ELSE [raised |-> FALSE, warning |-> None]

\* the dosage loop body for one item: raised when the item is no dict or its
\* name is no string (AttributeError), else the warning to append, if any
DoseItemStep(item, ltc, limits) ==
    IF item.t # "dict" THEN [raised |-> TRUE, warning |-> None]
    ELSE IF DoseItemName(item.d).t # "str" THEN [raised |-> TRUE, warning |-> None]
    ELSE LET drug_name == strip(DoseItemName(item.d).s)
             daily_mg == Float(DoseItemValue(item.d))
             resolved == Get(ltc, lower(drug_name))
             canonical == IF resolved # None THEN resolved[1] ELSE drug_name
             limit_entry == IF canonical \in DOMAIN limits THEN limits[canonical] ELSE <<>>
             max_mg == IF "max_daily_mg" \in DOMAIN limit_entry
                       THEN Float(limit_entry.max_daily_mg) ELSE None
             unit == IF "unit" \in DOMAIN limit_entry THEN limit_entry.unit ELSE "mg"
         IN  IF drug_name = <<>> THEN [raised |-> FALSE, warning |-> None]
             ELSE IF daily_mg = None THEN [raised |-> FALSE, warning |-> None]
             ELSE IF DOMAIN limit_entry = {} THEN [raised |-> FALSE, warning |-> None]
             ELSE IF max_mg = None THEN [raised |-> FALSE, warning |-> None]
             ELSE IF daily_mg[1] > max_mg[1]
             THEN [raised |-> FALSE,
                   warning |-> Some([drug |-> canonical, daily_mg |-> daily_mg[1],
                                     max_daily_mg |-> max_mg[1], unit |-> unit,
                                     message |-> <<daily_mg[1], unit, max_mg[1], canonical>>])]
             ELSE [raised |-> FALSE, warning |-> None]

\* the dosage loop over the remaining items
RECURSIVE DoseLoop(_, _, _, _)
DoseLoop(items, ltc, limits, warnings) ==
    IF items = <<>> THEN [raised |-> FALSE, warnings |-> warnings]
    ELSE LET step == DoseItemStep(Head(items), ltc, limits)
         IN  IF step.raised THEN [raised |-> TRUE, warnings |-> <<>>]
             ELSE DoseLoop(Tail(items), ltc, limits, warnings \o step.warning)

\* check_dosage_warnings, limits being the loaded dose-limit store
check_dosage_warnings(canonical_drugs, doses, ltc, limits) ==
    IF DOMAIN limits = {} \/ doses = None \/ doses[1] = <<>>
    THEN [raised |-> FALSE, warnings |-> <<>>]
    ELSE DoseLoop(doses[1], ltc, limits, <<>>)

\* [k.strip().lower() for k, v in patient_context.items() if v], as a set
ActiveConditions(context) == {lower(strip(k)) : k \in {c \in DOMAIN context : Truthy(context[c])}}

\* the warnings of one drug, in the order of its stored conditions
RECURSIVE ContraOfDrug(_, _, _)
ContraOfDrug(drug, conds, active) ==
    IF conds = <<>> THEN <<>>
    ELSE LET cond == Head(conds).key
             advice == Head(conds).value
             rest == ContraOfDrug(drug, Tail(conds), active)
         IN  IF lower(cond) \in active /\ Truthy(advice)
             THEN <<[drug |-> drug, condition |-> cond, advice |-> advice.s,
                     message |-> <<drug, cond, advice.s>>]>> \o rest
             ELSE rest

\* the loop over the drugs
RECURSIVE ContraLoop(_, _, _)
ContraLoop(drugs, contra, active) ==
    IF drugs = <<>> THEN <<>>
    ELSE ContraOfDrug(Head(drugs),
                      IF Head(drugs) \in DOMAIN contra THEN contra[Head(drugs)] ELSE <<>>,
                      active)
         \o ContraLoop(Tail(drugs), contra, active)

\* check_contraindication_warnings with every context key taken as active
CheckContraIgnoringFlags(canonical_drugs, context, contra) ==
    IF DOMAIN contra = {} \/ context = None \/ DOMAIN context[1] = {} THEN <<>>
    ELSE ContraLoop(canonical_drugs, contra, {lower(strip(k)) : k \in DOMAIN context[1]})

\* check_contraindication_warnings, contra being the loaded store
check_contraindication_warnings(canonical_drugs, context, contra) ==
    IF DOMAIN contra = {} \/ context = None \/ DOMAIN context[1] = {} THEN <<>>
    ELSE IF ActiveConditions(context[1]) = {} THEN <<>>
    ELSE ContraLoop(canonical_drugs, contra, ActiveConditions(context[1]))

----------------------------------------------------------------------------
(* check_drug_interactions as one call *)

\* the validation loop over the remaining entries
RECURSIVE ValidateLoop(_, _, _)
ValidateLoop(rest, norm, ltc) ==
    IF rest = <<>> THEN [error |-> FALSE, normalized |-> norm]
    ELSE LET step == ValidateEntry(norm, Head(rest), ltc)
         IN  IF step.error THEN step ELSE ValidateLoop(Tail(rest), step.normalized, ltc)

\* the pair loop over the remaining combinations
RECURSIVE PairLoop(_, _, _)
PairLoop(rest, a, m) ==
    IF rest = <<>> THEN a
    ELSE PairLoop(Tail(rest), ProcessPair(a, m, Head(rest)[1], Head(rest)[2]), m)

\* the overlay with an exception of the dosage pass left uncaught
OverlayUncaught(report, unique, doses, context, ltc, limits, contra) ==
    LET dosage == check_dosage_warnings(unique, doses, ltc, limits)
    IN  IF dosage.raised
        THEN [error |-> "Internal Server Error"]
        ELSE report @@ [dosage_warnings |-> dosage.warnings,
                        contraindication_warnings |->
                            check_contraindication_warnings(unique, context, contra)]

\* lines 282-297: both passes run inside one try; an exception raised by
\* either leaves both warning lists empty
Overlay(report, unique, doses, context, ltc, limits, contra) ==
    LET dosage == check_dosage_warnings(unique, doses, ltc, limits)
    IN  IF dosage.raised
        THEN report @@ [dosage_warnings |-> <<>>, contraindication_warnings |-> <<>>]
        ELSE report @@ [dosage_warnings |-> dosage.warnings,
                        contraindication_warnings |->
                            check_contraindication_warnings(unique, context, contra)]

\* check_drug_interactions: the value returned for drug list dl
check_drug_interactions(dl, m, ltc, doses, context, limits, contra) ==
    LET valid == ValidateLoop(dl, <<>>, ltc)
        unique == Deduplicate(valid.normalized)
    IN  IF valid.error THEN ErrNotFound
        ELSE IF CountCheck(unique) # None THEN CountCheck(unique)[1]
        ELSE Overlay(BuildResult(PairLoop(combinations(unique), InitAcc, m), unique),
                     unique, doses, context, ltc, limits, contra)

----------------------------------------------------------------------------
(* Inputs *)

\* a name no data source has
UnknownDrug == <<"Z","z">>

\* the raw entries short drug lists are drawn from
RawEntries ==
    { Str(Ibuprofen), Str(<<" ","i","B"," ">>), Str(Warfarin), Str(Digoxin),
      Str(Atorvastatin), Str(Metformin), Str(<<" ">>), Str(UnknownDrug), Num(7) }

\* the sequences over S of length at most n
SeqsUpTo(S, n) == UNION {[1..k -> S] : k \in 0..n}

\* the canonical names of the sample data source, in its order
SampleNames == [k \in DOMAIN SampleItems |-> SampleItems[k].key]

\* entries appended to a long list: nothing, a repeat in another case, a blank
\* entry, both, an unknown drug
LongListTails ==
    { <<>>, <<Str(<<"i","b">>)>>, <<Str(<<>>)>>,
      <<Str(<<" ","W","A">>), Str(<<" "," ">>), Str(Ibuprofen)>>,
      <<Str(UnknownDrug)>> }

\* lists of MAX_DRUGS - 1 .. MAX_DRUGS + 1 distinct drugs, followed by a tail
LongLists ==
    { [k \in 1..n |-> Str(SampleNames[k])] \o tail :
        n \in (MAX_DRUGS - 1)..(MAX_DRUGS + 1), tail \in LongListTails }

DrugLists == SeqsUpTo(RawEntries, MaxLen) \cup LongLists

\* data/drug_dosage_limits.json
DosageContent ==
    (Ibuprofen :> [max_daily_mg |-> Num(3), unit |-> "mg", route |-> "oral"])
    @@ (Warfarin :> [max_daily_mg |-> Str(<<"3">>)])
    @@ (Digoxin :> <<>>)
    @@ (Atorvastatin :> [unit |-> "mg"])
    @@ (Metformin :> [max_daily_mg |-> Str(<<"x">>)])
    @@ (Aspirin :> [max_daily_mg |-> PyNone])
    @@ (<<"q","q">> :> [max_daily_mg |-> Num(3), unit |-> "ml"])

DosageFiles ==
    { [state |-> "ok", content |-> DosageContent],
      [state |-> "ok", content |-> <<>>],
      [state |-> "missing"],
      [state |-> "malformed"] }

Pregnancy == <<"p","g">>
Liver == <<"L","v">>
Renal == <<"r","n">>

\* data/drug_contraindications.json: drug -> condition -> advice, the
\* conditions of a drug in file order
ContraContent ==
    (Warfarin :> << [key |-> Pregnancy, value |-> Str(<<"a","1">>)],
                    [key |-> Liver, value |-> Str(<<"a","2">>)],
                    [key |-> Renal, value |-> Str(<<>>)] >>)
    @@ (Ibuprofen :> << [key |-> <<" ","p","g">>, value |-> Str(<<"a","3">>)],
                        [key |-> Renal, value |-> Str(<<"a","4">>)],
                        [key |-> Pregnancy, value |-> Str(<<"a","5">>)] >>)
    @@ (Digoxin :> <<>>)
    @@ (<<"w","a">> :> << [key |-> Pregnancy, value |-> Str(<<"a","6">>)] >>)

ContraFiles ==
    { [state |-> "ok", content |-> ContraContent],
      [state |-> "ok", content |-> <<>>],
      [state |-> "missing"],
      [state |-> "malformed"] }

\* the optional inputs a check_drug_interactions call of Spec is given
OverlayInputs ==
    { [drug_doses |-> None, patient_context |-> None],
      [drug_doses |-> Some(<< [t |-> "dict", d |-> [drug |-> Str(<<"i","b">>), daily_mg |-> Num(4)]] >>),
       patient_context |-> Some((Pregnancy :> Bool(TRUE)))] }

----------------------------------------------------------------------------
(* Spec: one check_drug_interactions call, step by step *)

\* the values the variables of the other specifications keep
IdleSecondCall == drug_list2 = <<>> /\ result2 = None
IdleRiskCall == counts = <<0, 0, 0>> /\ risk = None
IdlePassCall == pass_result = None
IdleService == service = "starting" /\ request = None /\ response = None /\ backend_calls = 0
IdleRatioCall == ratio = <<0, 0>> /\ confidence = None
IdleLazy == reads = [interactions |-> 0, dosage |-> 0, contra |-> 0] /\ procs = <<>>

Init ==
    /\ IdleService /\ IdleRatioCall /\ IdleLazy
    /\ data_file \in DataFiles
    /\ dosage_file = [state |-> "ok", content |-> DosageContent]
    /\ contra_file = [state |-> "ok", content |-> ContraContent]
    /\ interactions_cache = None /\ lower_to_canonical_cache = None
    /\ dosage_cache = None /\ contraindication_cache = None
    /\ drug_list \in DrugLists
    /\ \E o \in OverlayInputs :
          drug_doses = o.drug_doses /\ patient_context = o.patient_context
    /\ pc = "start"
    /\ interactions = <<>> /\ lower_to_canonical = <<>>
    /\ idx = 0 /\ normalized = <<>> /\ unique_drugs = <<>>
    /\ pairs = <<>> /\ acc = InitAcc /\ lookups = 0 /\ result = None
    /\ IdleSecondCall /\ IdleRiskCall /\ IdlePassCall

\* line 147: get_cached_data(); FileNotFoundError leaves the call
GetCachedData ==
    /\ UNCHANGED <<api_vars, ratio_vars, lazy_vars>>
    /\ pc = "start"
    /\ LET got == get_cached_data(interactions_cache, lower_to_canonical_cache, data_file)
       IN  IF got.raised
           THEN /\ pc' = "raised"
                /\ UNCHANGED <<interactions_cache, lower_to_canonical_cache,
                               interactions, lower_to_canonical>>
           ELSE /\ pc' = "validate"
                /\ interactions_cache' = got.icache
                /\ lower_to_canonical_cache' = got.lcache
                /\ interactions' = got.icache[1]
                /\ lower_to_canonical' = got.lcache[1]
    /\ UNCHANGED <<data_file, dosage_file, contra_file, dosage_cache,
                   contraindication_cache, drug_list, drug_doses, patient_context,
                   idx, normalized, unique_drugs, pairs, acc, lookups, result,
                   drug_list2, result2, counts, risk, pass_result>>

\* lines 151-160: one iteration of the validation loop
Validate ==
    /\ UNCHANGED <<api_vars, ratio_vars, lazy_vars>>
    /\ pc = "validate"
    /\ idx < Len(drug_list)
    /\ LET step == ValidateEntry(normalized, drug_list[idx + 1], lower_to_canonical)
       IN  IF step.error
           THEN /\ result' = Some(ErrNotFound)
                /\ pc' = "done"
                /\ UNCHANGED <<idx, normalized>>
           ELSE /\ normalized' = step.normalized
                /\ idx' = idx + 1
                /\ UNCHANGED <<result, pc>>
    /\ UNCHANGED <<data_file, dosage_file, contra_file, interactions_cache,
                   lower_to_canonical_cache, dosage_cache, contraindication_cache,
                   drug_list, drug_doses, patient_context, interactions,
                   lower_to_canonical, unique_drugs, pairs, acc, lookups,
                   drug_list2, result2, counts, risk, pass_result>>

\* lines 162-190: deduplicate, check the count, set up the pair loop
DedupAndCount ==
    /\ UNCHANGED <<api_vars, ratio_vars, lazy_vars>>
    /\ pc = "validate"
    /\ idx = Len(drug_list)
    /\ unique_drugs' = Deduplicate(normalized)
    /\ IF CountCheck(unique_drugs') # None
       THEN /\ result' = CountCheck(unique_drugs')
            /\ pc' = "done"
            /\ UNCHANGED <<pairs, acc>>
       ELSE /\ pairs' = combinations(unique_drugs')
            /\ acc' = InitAcc
            /\ pc' = "pairs"
            /\ UNCHANGED result
    /\ UNCHANGED <<data_file, dosage_file, contra_file, interactions_cache,
                   lower_to_canonical_cache, dosage_cache, contraindication_cache,
                   drug_list, drug_doses, patient_context, interactions,
                   lower_to_canonical, idx, normalized, lookups,
                   drug_list2, result2, counts, risk, pass_result>>

\* lines 192-248: one iteration of the pair loop
LookupPair ==
    /\ UNCHANGED <<api_vars, ratio_vars, lazy_vars>>
    /\ pc = "pairs"
    /\ pairs # <<>>
    /\ acc' = ProcessPair(acc, interactions, Head(pairs)[1], Head(pairs)[2])
    /\ pairs' = Tail(pairs)
    /\ lookups' = lookups + 1
    /\ UNCHANGED <<data_file, dosage_file, contra_file, interactions_cache,
                   lower_to_canonical_cache, dosage_cache, contraindication_cache,
                   drug_list, drug_doses, patient_context, pc, interactions,
                   lower_to_canonical, idx, normalized, unique_drugs, result,
                   drug_list2, result2, counts, risk, pass_result>>

\* lines 250-307: assemble the report, run the two passes, return
Finish ==
    /\ UNCHANGED <<api_vars, ratio_vars, lazy_vars>>
    /\ pc = "pairs"
    /\ pairs = <<>>
    /\ dosage_cache' = load_dosage_limits(dosage_cache, dosage_file)
    /\ contraindication_cache' =
          IF check_dosage_warnings(unique_drugs, drug_doses, lower_to_canonical,
                                   dosage_cache'[1]).raised
          THEN contraindication_cache
          ELSE load_contraindications(contraindication_cache, contra_file)
    /\ result' = Some(Overlay(BuildResult(acc, unique_drugs), unique_drugs, drug_doses,
                              patient_context, lower_to_canonical, dosage_cache'[1],
                              load_contraindications(contraindication_cache, contra_file)[1]))
    /\ pc' = "done"
    /\ UNCHANGED <<data_file, dosage_file, contra_file, interactions_cache,
                   lower_to_canonical_cache, drug_list, drug_doses, patient_context,
                   interactions, lower_to_canonical, idx, normalized, unique_drugs,
                   pairs, acc, lookups, drug_list2, result2, counts, risk, pass_result>>

Next == GetCachedData \/ Validate \/ DedupAndCount \/ LookupPair \/ Finish

Spec == Init /\ [][Next]_vars

----------------------------------------------------------------------------
(* Properties of one call (Spec) *)

ReturnedError == pc = "done" /\ "error" \in DOMAIN result[1]
ReturnedReport == pc = "done" /\ "error" \notin DOMAIN result[1]

\* a string entry that is not blank
NonBlank(d) == d.t = "str" /\ strip(d.s) # <<>>

\* a non-blank string entry the name index does not resolve
Unresolved(d) == NonBlank(d) /\ lower(strip(d.s)) \notin DOMAIN lower_to_canonical

AnyUnresolved == \E k \in DOMAIN drug_list : Unresolved(drug_list[k])

\* the distinct canonical drugs the entries of drug_list resolve to
ResolvedNames ==
    {lower_to_canonical[lower(strip(drug_list[k].s))] :
        k \in {j \in DOMAIN drug_list : NonBlank(drug_list[j]) /\ ~Unresolved(drug_list[j])}}

\* C1: validation is all-or-nothing. A call whose list holds an unresolved
\* non-blank string entry returns exactly the DrugNotFound error, whatever the
\* other entries and the number of drugs; no _lookup_interaction call and no
\* accumulation happens before validation has finished or after it has failed.
C1_AllOrNothing ==
    /\ (pc = "done" /\ AnyUnresolved) => result = Some([error |-> "Drug not found in database"])
    /\ (pc = "done" /\ ~AnyUnresolved) => result # Some([error |-> "Drug not found in database"])
    /\ pc \in {"start", "validate"} => (lookups = 0 /\ acc = InitAcc /\ pairs = <<>>)
    /\ (pc = "done" /\ AnyUnresolved) => (lookups = 0 /\ acc = InitAcc /\ pairs = <<>>)

\* C1 witness: DrugNotFound returned for a list of more than ten resolvable
\* drugs followed by an unknown one
C1_Witness ==
    /\ pc = "done"
    /\ result = Some(ErrNotFound)
    /\ Len(drug_list) > 10
    /\ Cardinality(ResolvedNames) > 10
    /\ Unresolved(drug_list[Len(drug_list)])

\* C2: with every entry resolving, the outcome is decided by the number n of
\* distinct canonical drugs: TooFewDrugs iff n < 2, TooManyDrugs iff n > 10,
\* a report iff 2 <= n <= 10, whatever the raw length.
C2_CountAfterDedup ==
    (pc = "done" /\ ~AnyUnresolved) =>
        LET n == Cardinality(ResolvedNames)
        IN  /\ result = Some([error |-> "At least two valid drugs are required."]) <=> n < 2
            /\ result = Some([error |-> "Maximum 10 drugs allowed per request."]) <=> n > 10
            /\ "error" \notin DOMAIN result[1] <=> (2 <= n /\ n <= 10)

\* C2 witness: a raw list of more than ten entries holding ten distinct drugs
\* is accepted
C2_Witness ==
    /\ ReturnedReport
    /\ Len(drug_list) > 10
    /\ Cardinality(ResolvedNames) = 10

\* position of the pair (i, j), i < j, among the pairs of n elements
PairIndex(i, j, n) == (i - 1) * n - (i * (i - 1)) \div 2 + (j - i)

\* C4: a report over n distinct drugs has n*(n-1)/2 pair results, equal to
\* total_pairs; the pair of positions (i, j), i < j, of the normalized list is
\* at its index-order position with drugA = drug i and drugB = drug j; no drug
\* is paired with itself and no unordered pair appears twice.
C4_PairEnumeration ==
    ReturnedReport =>
        LET u == unique_drugs
            n == Len(u)
            pr == result[1].pair_results
        IN  /\ \A i, j \in 1..n : i # j => u[i] # u[j]
            /\ {u[i] : i \in 1..n} = ResolvedNames
            /\ Len(pr) = (n * (n - 1)) \div 2
            /\ result[1].total_pairs = Len(pr)
            /\ \A i, j \in 1..n : i < j =>
                  /\ pr[PairIndex(i, j, n)].drugA = u[i]
                  /\ pr[PairIndex(i, j, n)].drugB = u[j]
                  /\ \A k, l \in 1..n : k < l =>
                        (PairIndex(i, j, n) < PairIndex(k, l, n) <=> (i < k \/ (i = k /\ j < l)))
            /\ \A k \in DOMAIN pr : pr[k].drugA # pr[k].drugB
            /\ \A k, l \in DOMAIN pr :
                  k # l => {pr[k].drugA, pr[k].drugB} # {pr[l].drugA, pr[l].drugB}

\* C4 witness: a report over three or more drugs from a list with a repeat
C4_Witness ==
    /\ ReturnedReport
    /\ Len(unique_drugs) >= 3
    /\ Len(normalized) > Len(unique_drugs)

\* the severity weights as the specification states them
StatedWeight(severity) ==
    CASE severity = "Mild" -> 1
      [] severity = "Moderate" -> 2
      [] severity = "Severe" -> 3
      [] OTHER -> 0

RECURSIVE SumOfWeights(_)
SumOfWeights(prs) ==
    IF prs = <<>> THEN 0 ELSE StatedWeight(Head(prs).severity) + SumOfWeights(Tail(prs))

\* C5: total_score is the sum of the weights (Mild 1, Moderate 2, Severe 3)
\* of the reported severities of the known pairs; an Unknown pair adds 0 and
\* has no severity_score.
C5_TotalScore ==
    /\ pc = "pairs" => acc.total_score = SumOfWeights(acc.pair_results)
    /\ ReturnedReport =>
        LET pr == result[1].pair_results
        IN  /\ result[1].total_score = SumOfWeights(pr)
            /\ \A k \in DOMAIN pr :
                  /\ pr[k].severity \in {"Mild", "Moderate", "Severe", "Unknown"}
                  /\ pr[k].severity = "Unknown" => pr[k].severity_score = None
                  /\ pr[k].severity # "Unknown" =>
                        pr[k].severity_score = Some(StatedWeight(pr[k].severity))

\* C5 witness: Ibuprofen, Warfarin, Digoxin on the sample data: two Moderate
\* pairs and one Unknown pair, total_score 4
C5_Witness ==
    /\ ReturnedReport
    /\ unique_drugs = <<Ibuprofen, Warfarin, Digoxin>>
    /\ result[1].total_score = 4
    /\ result[1].unknown_pairs = 1
    /\ result[1].moderate_count = 2
    /\ result[1].overall_risk = "Severe"

\* C6: after k pairs have been processed, known_pairs + unknown_pairs = k =
\* the number of pair results recorded, and unknown_pairs is the number of
\* entries of interactions_not_found; at the end the sum is total_pairs.
C6_KnownPlusUnknown ==
    /\ pc = "pairs" =>
          /\ acc.known_pairs + acc.unknown_pairs = lookups
          /\ Len(acc.pair_results) = lookups
          /\ acc.unknown_pairs = Len(acc.interactions_not_found)
          /\ lookups + Len(pairs) = (Len(unique_drugs) * (Len(unique_drugs) - 1)) \div 2
    /\ ReturnedReport =>
          /\ result[1].known_pairs + result[1].unknown_pairs = result[1].total_pairs
          /\ result[1].unknown_pairs = Len(result[1].interactions_not_found)
          /\ Len(result[1].pair_results) = result[1].total_pairs
          /\ lookups = result[1].total_pairs

\* C6 witness: the pair loop is under way with a known and an unknown pair seen
C6_Witness ==
    /\ pc = "pairs"
    /\ pairs # <<>>
    /\ acc.known_pairs >= 1
    /\ acc.unknown_pairs >= 1

----------------------------------------------------------------------------
(* SpecRisk: direct calls of _overall_risk *)

\* the variables of the step-by-step call, at rest
IdleCall ==
    /\ dosage_file = [state |-> "ok", content |-> DosageContent]
    /\ contra_file = [state |-> "ok", content |-> ContraContent]
    /\ interactions_cache = None /\ lower_to_canonical_cache = None
    /\ dosage_cache = None /\ contraindication_cache = None
    /\ interactions = <<>> /\ lower_to_canonical = <<>>
    /\ idx = 0 /\ normalized = <<>> /\ unique_drugs = <<>>
    /\ pairs = <<>> /\ acc = InitAcc /\ lookups = 0 /\ result = None

InitRisk ==
    /\ IdleService /\ IdleRatioCall /\ IdleLazy
    /\ counts \in (0..MaxCount) \X (0..MaxCount) \X (0..MaxCount)
    /\ risk = None
    /\ data_file = [state |-> "ok", items |-> SampleItems]
    /\ drug_list = <<>> /\ drug_doses = None /\ patient_context = None
    /\ pc = "idle"
    /\ IdleCall /\ IdleSecondCall /\ IdlePassCall

\* _overall_risk(mild_count, moderate_count, severe_count)
CallOverallRisk ==
    /\ UNCHANGED <<api_vars, ratio_vars, lazy_vars>>
    /\ risk = None
    /\ risk' = Some(overall_risk(counts[1], counts[2], counts[3]))
    /\ UNCHANGED <<data_file, dosage_file, contra_file, interactions_cache,
                   lower_to_canonical_cache, dosage_cache, contraindication_cache,
                   drug_list, drug_doses, patient_context, pc, interactions,
                   lower_to_canonical, idx, normalized, unique_drugs, pairs, acc,
                   lookups, result, drug_list2, result2, counts, pass_result>>

NextRisk == CallOverallRisk

SpecRisk == InitRisk /\ [][NextRisk]_vars

\* C3: overall_risk by cases of (mild, moderate, severe): Severe with a Severe
\* pair; else Severe with two or more Moderate pairs, Moderate with exactly
\* one; else Moderate with three or more Mild pairs (escalated once, never to
\* Severe), Mild otherwise.
C3_OverallRisk ==
    risk # None =>
        LET mild == counts[1]
            moderate == counts[2]
            severe == counts[3]
        IN  /\ severe >= 1 => risk[1] = "Severe"
            /\ (severe = 0 /\ moderate >= 2) => risk[1] = "Severe"
            /\ (severe = 0 /\ moderate = 1) => risk[1] = "Moderate"
            /\ (severe = 0 /\ moderate = 0 /\ mild >= 3) => risk[1] = "Moderate"
            /\ (severe = 0 /\ moderate = 0 /\ mild < 3) => risk[1] = "Mild"

\* C3 witness: three Mild pairs and nothing else escalate to Moderate
C3_Witness == counts = <<3, 0, 0>> /\ risk = Some("Moderate")

----------------------------------------------------------------------------
(* SpecEquiv: two calls whose drug lists differ in case, blanks, empty     *)
(* entries or repeats                                                      *)

\* longest first drug list of SpecEquiv
MaxEquivLen == 2

EquivEntries ==
    { Str(Ibuprofen), Str(<<" ","i","B"," ">>), Str(Warfarin), Str(<<"W","A">>),
      Str(<<>>), Str(<<" ">>), Str(UnknownDrug) }

\* what case and surrounding blanks leave of an entry
EntryKey(e) == lower(strip(e.s))

\* l with e inserted after position k
InsertAt(l, k, e) == SubSeq(l, 1, k) \o <<e>> \o SubSeq(l, k + 1, Len(l))

\* the lists one edit away from l: an entry rewritten in another case or
\* spacing, an empty entry inserted, an already-listed drug repeated
Variants(l) ==
    UNION {{[l EXCEPT ![k] = e] : e \in {x \in EquivEntries : EntryKey(x) = EntryKey(l[k])}} :
              k \in DOMAIN l}
    \cup {InsertAt(l, k, e) : k \in 0..Len(l), e \in {x \in EquivEntries : EntryKey(x) = <<>>}}
    \cup UNION {{InsertAt(l, k, e) :
                    e \in {x \in EquivEntries : \E j \in 1..k : EntryKey(x) = EntryKey(l[j])
                                                              /\ EntryKey(x) # <<>>}} :
                k \in 1..Len(l)}

InitEquiv ==
    /\ IdleService /\ IdleRatioCall /\ IdleLazy
    /\ data_file \in {f \in DataFiles : f.state = "ok"}
    /\ drug_list \in SeqsUpTo(EquivEntries, MaxEquivLen)
    /\ drug_list2 \in Variants(drug_list)
    /\ \E o \in {x \in OverlayInputs : x.drug_doses # None} :
          drug_doses = o.drug_doses /\ patient_context = o.patient_context
    /\ result2 = None
    /\ pc = "idle"
    /\ IdleCall /\ IdleRiskCall /\ IdlePassCall

\* a whole check_drug_interactions(dl, doses, context) call on the cached
\* stores: the value returned and the caches it leaves
CallWith(dl, doses, context) ==
    LET got == get_cached_data(interactions_cache, lower_to_canonical_cache, data_file)
        limits == load_dosage_limits(dosage_cache, dosage_file)
        contra == load_contraindications(contraindication_cache, contra_file)
        unique == Deduplicate(ValidateLoop(dl, <<>>, got.lcache[1]).normalized)
        res == check_drug_interactions(dl, got.icache[1], got.lcache[1], doses,
                                       context, limits[1], contra[1])
    IN  [res |-> res,
         icache |-> got.icache,
         lcache |-> got.lcache,
         dcache |-> IF "error" \in DOMAIN res THEN dosage_cache ELSE limits,
         ccache |-> IF \/ "error" \in DOMAIN res
                       \/ check_dosage_warnings(unique, doses, got.lcache[1],
                                                limits[1]).raised
                    THEN contraindication_cache ELSE contra]

\* the call on the drug_doses and patient_context of the state
WholeCall(dl) == CallWith(dl, drug_doses, patient_context)

\* check_drug_interactions(drug_list, ...)
CallFirst ==
    /\ UNCHANGED <<api_vars, ratio_vars, lazy_vars>>
    /\ result = None
    /\ \E call \in {WholeCall(drug_list)} :
           /\ result' = Some(call.res)
           /\ interactions_cache' = call.icache
           /\ lower_to_canonical_cache' = call.lcache
           /\ dosage_cache' = call.dcache
           /\ contraindication_cache' = call.ccache
    /\ UNCHANGED <<data_file, dosage_file, contra_file, drug_list, drug_doses,
                   patient_context, pc, interactions, lower_to_canonical, idx,
                   normalized, unique_drugs, pairs, acc, lookups, drug_list2,
                   result2, counts, risk, pass_result>>

\* check_drug_interactions(drug_list2, ...)
CallSecond ==
    /\ UNCHANGED <<api_vars, ratio_vars, lazy_vars>>
    /\ result # None
    /\ result2 = None
    /\ \E call \in {WholeCall(drug_list2)} :
           /\ result2' = Some(call.res)
           /\ interactions_cache' = call.icache
           /\ lower_to_canonical_cache' = call.lcache
           /\ dosage_cache' = call.dcache
           /\ contraindication_cache' = call.ccache
    /\ UNCHANGED <<data_file, dosage_file, contra_file, drug_list, drug_doses,
                   patient_context, pc, interactions, lower_to_canonical, idx,
                   normalized, unique_drugs, pairs, acc, lookups, drug_list2,
                   result, counts, risk, pass_result>>

NextEquiv == CallFirst \/ CallSecond

SpecEquiv == InitEquiv /\ [][NextEquiv]_vars

\* C7: two drug lists that differ only in letter case, surrounding blanks,
\* empty entries or repeats of an already-listed drug have the same outcome:
\* the same error, or reports equal in every field.
C7_SameOutcome == (result # None /\ result2 # None) => result = result2

\* C7 witness: both calls returned a report, the second list holding one
\* entry more than the first
C7_Witness ==
    /\ result # None /\ result2 # None
    /\ "error" \notin DOMAIN result[1]
    /\ Len(drug_list2) = Len(drug_list) + 1
    /\ \E k \in DOMAIN drug_list : drug_list[k] = Str(<<" ","i","B"," ">>)

\* the step-by-step call returns what the whole call returns
StepwiseAgrees ==
    pc = "done" =>
        result[1] = check_drug_interactions(drug_list, interactions, lower_to_canonical,
                                            drug_doses, patient_context,
                                            load_json(dosage_file), load_json(contra_file))

\* C8: lookup is symmetric for every loaded interaction map: Lookup(A, B) and
\* Lookup(B, A) give the same entry or are both not found, and the calls on
\* [A, B] and on [B, A] report the same severity, severity_score, description
\* and total_score.
C8_SymmetricLookup ==
    interactions_cache # None =>
        LET m == interactions_cache[1]
            ltc == lower_to_canonical_cache[1]
            names == {ltc[k] : k \in DOMAIN ltc}
            call(a, b) == check_drug_interactions(<<Str(a), Str(b)>>, m, ltc, None, None, <<>>, <<>>)
        IN  /\ \A a, b \in DOMAIN m : lookup_interaction(m, a, b) = lookup_interaction(m, b, a)
            /\ \A a, b \in names :
                  IF "error" \in DOMAIN call(a, b) THEN call(a, b) = call(b, a)
                  ELSE /\ "error" \notin DOMAIN call(b, a)
                       /\ call(a, b).pair_results[1].severity = call(b, a).pair_results[1].severity
                       /\ call(a, b).pair_results[1].severity_score
                            = call(b, a).pair_results[1].severity_score
                       /\ call(a, b).pair_results[1].description
                            = call(b, a).pair_results[1].description
                       /\ call(a, b).total_score = call(b, a).total_score

----------------------------------------------------------------------------
(* SpecDose: direct calls of check_dosage_warnings *)

\* a dose item {"drug": name, "daily_mg": dose}, a key left out when its
\* value is None
DoseItem(name, dose) ==
    [t |-> "dict",
     d |-> (IF name = None THEN <<>> ELSE [drug |-> name[1]])
           @@ (IF dose = None THEN <<>> ELSE [daily_mg |-> dose[1]])]

DoseItems ==
    { DoseItem(name, dose) :
        name \in { Some(Str(<<" ","i","B"," ">>)), Some(Str(Warfarin)), Some(Str(<<"q","q">>)),
                   Some(Str(<<"Q","q">>)), Some(Str(<<" ">>)) },
        dose \in { None, Some(Num(3)), Some(Num(4)), Some(Str(<<"4">>)) } }
    \cup
    { DoseItem(Some(Str(Ibuprofen)), Some(Str(<<"x">>))),
      DoseItem(Some(Str(Ibuprofen)), Some(PyNone)),
      DoseItem(None, Some(Num(4))),
      DoseItem(Some(Num(5)), Some(Num(4))),
      [t |-> "dict", d |-> [name |-> Str(Ibuprofen), daily_dose |-> Num(4)]],
      [t |-> "dict", d |-> [drug |-> PyNone, name |-> Str(Warfarin), daily_mg |-> Num(4)]],
      DoseItem(Some(Str(Metformin)), Some(Num(4))),
      DoseItem(Some(Str(Aspirin)), Some(Num(4))),
      DoseItem(Some(Str(Digoxin)), Some(Num(4))),
      DoseItem(Some(Str(Atorvastatin)), Some(Num(4))) }

InitDose ==
    /\ IdleService /\ IdleRatioCall /\ IdleLazy
    /\ data_file = [state |-> "ok", items |-> SampleItems]
    /\ dosage_file \in DosageFiles
    /\ contra_file = [state |-> "ok", content |-> ContraContent]
    /\ interactions_cache = Some(load_interaction_data(data_file).interactions)
    /\ lower_to_canonical_cache = Some(load_interaction_data(data_file).lower_to_canonical)
    /\ dosage_cache = None /\ contraindication_cache = None
    /\ drug_list = <<>>
    /\ drug_doses \in {None} \cup {Some(l) : l \in SeqsUpTo(DoseItems, MaxDoses)}
    /\ patient_context = None
    /\ pc = "idle"
    /\ interactions = interactions_cache[1]
    /\ lower_to_canonical = lower_to_canonical_cache[1]
    /\ idx = 0 /\ normalized = <<>> /\ unique_drugs = <<Ibuprofen, Warfarin>>
    /\ pairs = <<>> /\ acc = InitAcc /\ lookups = 0 /\ result = None
    /\ IdleSecondCall /\ IdleRiskCall /\ IdlePassCall

\* check_dosage_warnings(unique_drugs, drug_doses, lower_to_canonical)
CallDosage ==
    /\ UNCHANGED <<api_vars, ratio_vars, lazy_vars>>
    /\ pass_result = None
    /\ dosage_cache' = load_dosage_limits(dosage_cache, dosage_file)
    /\ pass_result' = Some(check_dosage_warnings(unique_drugs, drug_doses,
                                                 lower_to_canonical, dosage_cache'[1]))
    /\ UNCHANGED <<data_file, dosage_file, contra_file, interactions_cache,
                   lower_to_canonical_cache, contraindication_cache, drug_list,
                   drug_doses, patient_context, pc, interactions, lower_to_canonical,
                   idx, normalized, unique_drugs, pairs, acc, lookups, result,
                   drug_list2, result2, counts, risk>>

NextDose == CallDosage

SpecDose == InitDose /\ [][NextDose]_vars

\* the dose-limit store a pass call finds
StoredLimits == load_json(dosage_file)

\* the name of a dose entry: its "drug", else its "name", blanks stripped
StatedName(d) ==
    LET pick == IF "drug" \in DOMAIN d /\ d.drug.t = "str" /\ d.drug.s # <<>> THEN d.drug.s
                ELSE IF "name" \in DOMAIN d /\ d.name.t = "str" THEN d.name.s
                ELSE <<>>
    IN  strip(pick)

\* the name resolved through the index, or the raw name when it does not resolve
StatedDrug(d) ==
    IF lower(StatedName(d)) \in DOMAIN lower_to_canonical
    THEN lower_to_canonical[lower(StatedName(d))] ELSE StatedName(d)

\* the entry states a numeric dose: Some(dose), None when missing or not numeric
StatedDose(d) ==
    IF "daily_mg" \in DOMAIN d THEN Float(d.daily_mg)
    ELSE IF "daily_dose" \in DOMAIN d THEN Float(d.daily_dose)
    ELSE None

\* the maximum daily dose of a drug: Some(limit), None when it has none
StatedLimit(drug) ==
    IF drug \in DOMAIN StoredLimits /\ "max_daily_mg" \in DOMAIN StoredLimits[drug]
    THEN Float(StoredLimits[drug].max_daily_mg) ELSE None

\* the entry must be warned about
Exceeds(d) ==
    /\ StatedName(d) # <<>>
    /\ StatedDose(d) # None
    /\ StatedLimit(StatedDrug(d)) # None
    /\ StatedDose(d)[1] > StatedLimit(StatedDrug(d))[1]

\* the (drug, dose, limit) of the entries to be warned about, in order
RECURSIVE ExpectedDoseWarnings(_)
ExpectedDoseWarnings(items) ==
    IF items = <<>> THEN <<>>
    ELSE (IF Exceeds(Head(items).d)
          THEN << <<StatedDrug(Head(items).d), StatedDose(Head(items).d)[1],
                    StatedLimit(StatedDrug(Head(items).d))[1]>> >>
          ELSE <<>>)
         \o ExpectedDoseWarnings(Tail(items))

\* every dose entry names its drug by a string, or not at all
NamedByStrings ==
    drug_doses # None =>
        \A k \in DOMAIN drug_doses[1] : DoseItemName(drug_doses[1][k].d).t = "str"

----------------------------------------------------------------------------
(* SpecContra: direct calls of check_contraindication_warnings *)

\* most keys a patient context holds
MaxKeys == 2

ContextKeys == { Pregnancy, <<" ","P","G"," ">>, <<"l","v">>, Renal }

ContextValues == { Bool(TRUE), Bool(FALSE), Str(<<"y">>), Num(0) }

Contexts ==
    UNION {[keys -> ContextValues] :
              keys \in {K \in SUBSET ContextKeys : Cardinality(K) <= MaxKeys}}

\* the normalized lists the pass is called with
CanonicalLists ==
    {l \in SeqsUpTo({Warfarin, Ibuprofen, Digoxin}, 3) :
        \A i, j \in DOMAIN l : i # j => l[i] # l[j]}

InitContra ==
    /\ IdleService /\ IdleRatioCall /\ IdleLazy
    /\ data_file = [state |-> "ok", items |-> SampleItems]
    /\ dosage_file = [state |-> "ok", content |-> DosageContent]
    /\ contra_file \in ContraFiles
    /\ interactions_cache = Some(load_interaction_data(data_file).interactions)
    /\ lower_to_canonical_cache = Some(load_interaction_data(data_file).lower_to_canonical)
    /\ dosage_cache = None /\ contraindication_cache = None
    /\ drug_list = <<>>
    /\ drug_doses = None
    /\ patient_context \in {None} \cup {Some(c) : c \in Contexts}
    /\ pc = "idle"
    /\ interactions = interactions_cache[1]
    /\ lower_to_canonical = lower_to_canonical_cache[1]
    /\ idx = 0 /\ normalized = <<>> /\ unique_drugs \in CanonicalLists
    /\ pairs = <<>> /\ acc = InitAcc /\ lookups = 0 /\ result = None
    /\ IdleSecondCall /\ IdleRiskCall /\ IdlePassCall

\* check_contraindication_warnings(unique_drugs, patient_context)
CallContra ==
    /\ UNCHANGED <<api_vars, ratio_vars, lazy_vars>>
    /\ pass_result = None
    /\ contraindication_cache' = load_contraindications(contraindication_cache, contra_file)
    /\ pass_result' =
          Some([raised |-> FALSE,
                warnings |-> check_contraindication_warnings(unique_drugs, patient_context,
                                                             contraindication_cache'[1])])
    /\ UNCHANGED <<data_file, dosage_file, contra_file, interactions_cache,
                   lower_to_canonical_cache, dosage_cache, drug_list,
                   drug_doses, patient_context, pc, interactions, lower_to_canonical,
                   idx, normalized, unique_drugs, pairs, acc, lookups, result,
                   drug_list2, result2, counts, risk>>

NextContra == CallContra

SpecContra == InitContra /\ [][NextContra]_vars

\* the contraindication store a pass call finds
StoredContra == load_json(contra_file)

\* the store has the condition for the drug, with non-empty advice
StoredAdvice(drug, cond) ==
    /\ drug \in DOMAIN StoredContra
    /\ \E k \in DOMAIN StoredContra[drug] :
          /\ StoredContra[drug][k].key = cond
          /\ StoredContra[drug][k].value.t = "str"
          /\ StoredContra[drug][k].value.s # <<>>

\* the context flags the condition: a key equal to it, trimmed and in lower
\* case, has a truthy value
Flagged(cond) ==
    /\ patient_context # None
    /\ \E key \in DOMAIN patient_context[1] :
          /\ lower(strip(key)) = lower(cond)
          /\ Truthy(patient_context[1][key])

\* position of a drug in the normalized list
PositionOf(drug) == CHOOSE k \in DOMAIN unique_drugs : unique_drugs[k] = drug

\* C10: the contraindication pass warns about (drug, condition) iff the drug
\* is in the normalized list, the store has the condition for the drug with
\* non-empty advice, and the context flags the condition; a context with no
\* truthy flag yields no warning; warnings follow the order of the drugs in
\* the normalized list.
C10_ContraPass ==
    pass_result # None =>
        LET w == pass_result[1].warnings
            drugs == {unique_drugs[k] : k \in DOMAIN unique_drugs} \cup DOMAIN StoredContra
            conds == UNION {{StoredContra[d][k].key : k \in DOMAIN StoredContra[d]} :
                               d \in DOMAIN StoredContra}
        IN  /\ \A k \in DOMAIN w : w[k].drug \in drugs /\ w[k].condition \in conds
            /\ \A drug \in drugs, cond \in conds :
                  (\E k \in DOMAIN w : w[k].drug = drug /\ w[k].condition = cond)
                  <=> /\ \E k \in DOMAIN unique_drugs : unique_drugs[k] = drug
                      /\ StoredAdvice(drug, cond)
                      /\ Flagged(cond)
            /\ (patient_context # None
                /\ \A key \in DOMAIN patient_context[1] : ~Truthy(patient_context[1][key]))
               => w = <<>>
            /\ \A k, l \in DOMAIN w : k < l => PositionOf(w[k].drug) <= PositionOf(w[l].drug)

\* C10 witness: Ibuprofen and Warfarin both warned about, in list order, on a
\* context key written in another case and spacing
C10_Witness ==
    /\ pass_result # None
    /\ unique_drugs = <<Ibuprofen, Digoxin, Warfarin>>
    /\ patient_context # None
    /\ DOMAIN patient_context[1] = {<<" ","P","G"," ">>, Renal}
    /\ Len(pass_result[1].warnings) >= 2
    /\ pass_result[1].warnings[1].drug = Ibuprofen
    /\ pass_result[1].warnings[Len(pass_result[1].warnings)].drug = Warfarin

----------------------------------------------------------------------------
(* SpecOverlay: a call with optional inputs and stores, and the same call  *)
(* with neither                                                            *)

\* the drug lists of the overlay calls: reports of one and three pairs, an
\* unresolved entry, too few drugs
OverlayLists ==
    { <<Str(Ibuprofen), Str(Warfarin)>>,
      <<Str(Warfarin), Str(<<" ","i","B"," ">>), Str(Digoxin)>>,
      <<Str(Atorvastatin), Str(Digoxin), Str(Metformin), Str(Atorvastatin)>>,
      <<Str(Ibuprofen), Str(UnknownDrug)>>,
      <<Str(Ibuprofen), Str(<<"i","b">>)>> }

\* the drug_doses arguments: absent, empty, a dose above the limit, an entry
\* named by a number, both
OverlayDoses ==
    { None, Some(<<>>),
      Some(<<DoseItem(Some(Str(<<"i","b">>)), Some(Num(4)))>>),
      Some(<<DoseItem(Some(Num(5)), Some(Num(4)))>>),
      Some(<<DoseItem(Some(Str(Warfarin)), Some(Num(4))),
             DoseItem(Some(Num(5)), Some(Num(4)))>>) }

\* the patient_context arguments: absent, empty, flag set, flag cleared
OverlayContexts ==
    { None, Some(<<>>), Some((Pregnancy :> Bool(TRUE))), Some((Pregnancy :> Bool(FALSE))) }

InitOverlay ==
    /\ IdleService /\ IdleRatioCall /\ IdleLazy
    /\ data_file \in {f \in DataFiles : f.state = "ok"}
    /\ dosage_file \in DosageFiles
    /\ contra_file \in ContraFiles
    /\ interactions_cache = None /\ lower_to_canonical_cache = None
    /\ dosage_cache = None /\ contraindication_cache = None
    /\ drug_list \in OverlayLists
    /\ drug_doses \in OverlayDoses
    /\ patient_context \in OverlayContexts
    /\ pc = "idle"
    /\ interactions = <<>> /\ lower_to_canonical = <<>>
    /\ idx = 0 /\ normalized = <<>> /\ unique_drugs = <<>>
    /\ pairs = <<>> /\ acc = InitAcc /\ lookups = 0 /\ result = None
    /\ IdleSecondCall /\ IdleRiskCall /\ IdlePassCall

\* check_drug_interactions(drug_list) by a process that has neither optional
\* data file
CallPlain ==
    /\ result # None
    /\ result2 = None
    /\ \E loaded \in {load_interaction_data(data_file)} :
          result2' = Some(check_drug_interactions(drug_list, loaded.interactions,
                                                  loaded.lower_to_canonical,
                                                  None, None, <<>>, <<>>))
    /\ drug_list2' = drug_list
    /\ UNCHANGED <<data_file, dosage_file, contra_file, interactions_cache,
                   lower_to_canonical_cache, dosage_cache, contraindication_cache,
                   drug_list, drug_doses, patient_context, pc, interactions,
                   lower_to_canonical, idx, normalized, unique_drugs, pairs, acc,
                   lookups, result, counts, risk, pass_result>>
    /\ UNCHANGED <<api_vars, ratio_vars, lazy_vars>>

NextOverlay == CallFirst \/ CallPlain

SpecOverlay == InitOverlay /\ [][NextOverlay]_vars

\* a report without its two warning lists
WithoutWarningLists(r) ==
    [k \in DOMAIN r \ {"dosage_warnings", "contraindication_warnings"} |-> r[k]]

\* C11: the outcome kind and every report field other than dosage_warnings
\* and contraindication_warnings are those of the call made with no optional
\* input and no optional store, whatever the doses, the context and the two
\* stores are; and a pass whose store is empty or whose input is absent
\* leaves its warning list in the report, empty.
C11_Additive ==
    (result # None /\ result2 # None) =>
        /\ ("error" \in DOMAIN result[1]) <=> ("error" \in DOMAIN result2[1])
        /\ WithoutWarningLists(result[1]) = WithoutWarningLists(result2[1])
        /\ "error" \notin DOMAIN result[1] =>
              /\ {"dosage_warnings", "contraindication_warnings"} \subseteq DOMAIN result[1]
              /\ (DOMAIN StoredLimits = {} \/ drug_doses = None)
                    => result[1].dosage_warnings = <<>>
              /\ (DOMAIN StoredContra = {} \/ patient_context = None)
                    => result[1].contraindication_warnings = <<>>

\* C11 witness: a report with a dosage and a contraindication warning next to
\* the report of the plain call
C11_Witness ==
    /\ result # None /\ result2 # None
    /\ "error" \notin DOMAIN result[1]
    /\ result[1].dosage_warnings # <<>>
    /\ result[1].contraindication_warnings # <<>>
    /\ result2[1].dosage_warnings = <<>>
    /\ result[1].total_pairs = 3

----------------------------------------------------------------------------
(* SpecService: the API process (api/main.py)                              *)

\* API_KEY: the default when MEDISYNC_API_KEY is not set
API_KEY == "medisync-demo-key-2024"

\* HTTPException(status_code, detail) and a returned body, as responses
HTTPException(status_code, detail) == [status |-> status_code, body |-> detail]
Returned(body) == [status |-> 200, body |-> body]

\* verify_api_key with any key that is present accepted
VerifyApiKeyPresentOnly(x_api_key) ==
    IF x_api_key = None
    THEN Some(HTTPException(401, "Invalid or missing API key")) ELSE None

\* verify_api_key: the exception raised, None when the key is the configured one
verify_api_key(x_api_key) ==
    IF x_api_key # Some(API_KEY)
    THEN Some(HTTPException(401, "Invalid or missing API key")) ELSE None

\* the X-API-Key header of a request: missing, right, wrong
ApiKeys == { None, Some(API_KEY), Some("medisync-demo-key-2025") }

\* the drugs of a POST /check-interactions body
ApiDrugLists ==
    { <<Ibuprofen, Warfarin>>,
      <<<<" ","w","A"," ">>, Ibuprofen, Digoxin>>,
      <<Ibuprofen, UnknownDrug>>,
      <<Ibuprofen, <<" ">>, <<"i","b">> >>,
      <<>>,
      [k \in 1..(MAX_DRUGS + 1) |-> SampleNames[k]] }

\* the names of a GET /drug/{name} or GET /check-pair request
ApiNames == { Ibuprofen, <<" ","w","A"," ">>, UnknownDrug, <<" ">> }

InitService ==
    /\ IdleService /\ IdleRatioCall /\ IdleLazy
    /\ data_file \in DataFiles
    /\ dosage_file \in DosageFiles
    /\ contra_file \in ContraFiles
    /\ interactions_cache = None /\ lower_to_canonical_cache = None
    /\ dosage_cache = None /\ contraindication_cache = None
    /\ drug_list = <<>> /\ drug_doses = None /\ patient_context = None
    /\ pc = "idle"
    /\ interactions = <<>> /\ lower_to_canonical = <<>>
    /\ idx = 0 /\ normalized = <<>> /\ unique_drugs = <<>>
    /\ pairs = <<>> /\ acc = InitAcc /\ lookups = 0 /\ result = None
    /\ IdleSecondCall /\ IdleRiskCall /\ IdlePassCall

\* the variables no API action changes
call_vars == <<data_file, dosage_file, contra_file, drug_list, drug_doses,
               patient_context, pc, interactions, lower_to_canonical, idx,
               normalized, unique_drugs, pairs, acc, lookups, result, drug_list2,
               result2, counts, risk, pass_result>>

\* the four module caches
cache_vars == <<interactions_cache, lower_to_canonical_cache, dosage_cache,
                contraindication_cache>>

\* lifespan: init_interaction_data(), then init_dosage_contraindications();
\* an exception of the first ends the start-up
Lifespan ==
    /\ service = "starting"
    /\ \E got \in {init_interaction_data(interactions_cache, lower_to_canonical_cache,
                                         data_file)} :
          IF got.raised
          THEN /\ service' = "failed"
               /\ UNCHANGED cache_vars
          ELSE /\ interactions_cache' = got.icache
               /\ lower_to_canonical_cache' = got.lcache
               /\ dosage_cache' = load_dosage_limits(dosage_cache, dosage_file)
               /\ contraindication_cache' =
                     load_contraindications(contraindication_cache, contra_file)
               /\ service' = "ready"
    /\ UNCHANGED <<request, response, backend_calls, call_vars, ratio_vars, lazy_vars>>

\* GET /health
Health ==
    /\ service = "ready"
    /\ \E key \in ApiKeys :
          request' = Some([endpoint |-> "health", x_api_key |-> key, drugs |-> <<>>,
                      drug_doses |-> None, patient_context |-> None])
    /\ response' = Some(Returned([status |-> "ok", service |-> "MediSync"]))
    /\ backend_calls' = 0
    /\ UNCHANGED <<service, cache_vars, call_vars, ratio_vars, lazy_vars>>

\* POST /check-interactions
CheckInteractions ==
    /\ service = "ready"
    /\ \E key \in ApiKeys, drugs \in ApiDrugLists, o \in OverlayInputs :
          /\ request' = Some([endpoint |-> "check-interactions", x_api_key |-> key,
                         drugs |-> drugs, drug_doses |-> o.drug_doses,
                         patient_context |-> o.patient_context])
          /\ IF verify_api_key(key) # None
             THEN /\ response' = verify_api_key(key)
                  /\ backend_calls' = 0
                  /\ UNCHANGED cache_vars
             ELSE \E call \in {CallWith([k \in DOMAIN drugs |-> Str(drugs[k])],
                                        o.drug_doses, o.patient_context)} :
                     /\ response' = Some(IF "error" \in DOMAIN call.res
                                         THEN HTTPException(400, call.res.error)
                                         ELSE Returned(call.res))
                     /\ backend_calls' = 1
                     /\ interactions_cache' = call.icache
                     /\ lower_to_canonical_cache' = call.lcache
                     /\ dosage_cache' = call.dcache
                     /\ contraindication_cache' = call.ccache
    /\ UNCHANGED <<service, call_vars, ratio_vars, lazy_vars>>

\* GET /drug/{name}
GetDrug ==
    /\ service = "ready"
    /\ \E key \in ApiKeys, name \in ApiNames :
          /\ request' = Some([endpoint |-> "drug", x_api_key |-> key, drugs |-> <<name>>,
                         drug_doses |-> None, patient_context |-> None])
          /\ IF verify_api_key(key) # None
             THEN /\ response' = verify_api_key(key)
                  /\ backend_calls' = 0
                  /\ UNCHANGED cache_vars
             ELSE \E got \in {get_cached_data(interactions_cache, lower_to_canonical_cache,
                                              data_file)} :
                     LET canonical == Get(got.lcache[1], lower(strip(name)))
                     IN  /\ response' = Some(
                               IF canonical = None
                               THEN HTTPException(404, "Drug not found in database")
                               ELSE Returned(
                                      [name |-> canonical[1], in_database |-> TRUE,
                                       interaction_count |->
                                          IF canonical[1] \in DOMAIN got.icache[1]
                                          THEN Cardinality(DOMAIN got.icache[1][canonical[1]])
                                          ELSE 0]))
                         /\ backend_calls' = 1
                         /\ interactions_cache' = got.icache
                         /\ lower_to_canonical_cache' = got.lcache
                         /\ UNCHANGED <<dosage_cache, contraindication_cache>>
    /\ UNCHANGED <<service, call_vars, ratio_vars, lazy_vars>>

\* GET /check-pair
CheckPair ==
    /\ service = "ready"
    /\ \E key \in ApiKeys, drug1 \in ApiNames, drug2 \in ApiNames :
          /\ request' = Some([endpoint |-> "check-pair", x_api_key |-> key,
                         drugs |-> <<drug1, drug2>>,
                         drug_doses |-> None, patient_context |-> None])
          /\ IF verify_api_key(key) # None
             THEN /\ response' = verify_api_key(key)
                  /\ backend_calls' = 0
                  /\ UNCHANGED cache_vars
             ELSE \E call \in {CallWith(<<Str(strip(drug1)), Str(strip(drug2))>>,
                                        None, None)} :
                     /\ response' = Some(
                           IF "error" \in DOMAIN call.res
                           THEN HTTPException(400, call.res.error)
                           ELSE IF Len(call.res.pair_results) # 1
                           THEN HTTPException(400, "Exactly two drugs required")
                           ELSE LET pr == call.res.pair_results[1]
                                IN  Returned(
                                      [drugA |-> pr.drugA, drugB |-> pr.drugB,
                                       severity |-> pr.severity,
                                       severity_score |-> pr.severity_score,
                                       description |-> pr.description,
                                       color |-> SEVERITY_COLORS[pr.severity],
                                       interaction_found |-> pr.severity # "Unknown"]))
                     /\ backend_calls' = 1
                     /\ interactions_cache' = call.icache
                     /\ lower_to_canonical_cache' = call.lcache
                     /\ dosage_cache' = call.dcache
                     /\ contraindication_cache' = call.ccache
    /\ UNCHANGED <<service, call_vars, ratio_vars, lazy_vars>>

NextService == Lifespan \/ Health \/ CheckInteractions \/ GetDrug \/ CheckPair

SpecService == InitService /\ [][NextService]_vars

\* the store a data file gives when it loads, the empty store when it does not
StoreOf(file) == IF file.state = "ok" THEN file.content ELSE <<>>

\* C12: once start-up has ended the service is ready iff the interaction data
\* source loaded; after a failed load no request is handled; a missing or
\* malformed dose-limit or contraindication data source leaves the service
\* ready with that store empty, and every report served then has that pass's
\* warning list empty.
C12_LoadAsymmetry ==
    /\ service # "starting" => (service = "ready" <=> data_file.state = "ok")
    /\ service = "failed" => request = None /\ response = None
    /\ service = "ready" =>
          /\ interactions_cache # None /\ lower_to_canonical_cache # None
          /\ dosage_cache = Some(StoreOf(dosage_file))
          /\ contraindication_cache = Some(StoreOf(contra_file))
    /\ (/\ response # None
        /\ request[1].endpoint = "check-interactions"
        /\ response[1].status = 200) =>
          /\ dosage_file.state # "ok" => response[1].body.dosage_warnings = <<>>
          /\ contra_file.state # "ok" => response[1].body.contraindication_warnings = <<>>

\* C12 witness: a report served without dose limits, the dose above the limit
\* not warned about, the contraindication warned about
C12_Witness ==
    /\ service = "ready"
    /\ dosage_file.state = "malformed"
    /\ contra_file.state = "ok"
    /\ response # None
    /\ request[1].endpoint = "check-interactions"
    /\ request[1].drug_doses # None
    /\ response[1].status = 200
    /\ response[1].body.dosage_warnings = <<>>
    /\ response[1].body.contraindication_warnings # <<>>

----------------------------------------------------------------------------
(* Properties of the report (Spec) *)

\* the pair results that are not Unknown, in order
KnownResults(prs) == SelectSeq(prs, LAMBDA p : p.severity # "Unknown")

\* the first n characters of s, all of s when it is shorter
CutTo(s, n) == [k \in 1..(IF Len(s) < n THEN Len(s) ELSE n) |-> s[k]]

\* C13: in every report the graph nodes are the normalized drugs, one node
\* each, in normalized-list order; the graph edges are the known pairs, one
\* edge per known pair in enumeration order and none for an Unknown pair, so
\* the number of edges is known_pairs; each edge has the severity and the
\* severity_score of its pair result and the pair's description cut to at
\* most 150 characters.
C13_GraphAssembly ==
    /\ pc = "pairs" => Len(acc.graph_edges) = acc.known_pairs
    /\ ReturnedReport =>
        LET nodes == result[1].graph_data.nodes
            edges == result[1].graph_data.edges
            known == KnownResults(result[1].pair_results)
        IN  /\ Len(nodes) = Len(unique_drugs)
            /\ \A k \in DOMAIN nodes : nodes[k] = [id |-> unique_drugs[k]]
            /\ \A k, l \in DOMAIN nodes : k # l => nodes[k].id # nodes[l].id
            /\ {nodes[k].id : k \in DOMAIN nodes} = ResolvedNames
            /\ Len(edges) = result[1].known_pairs
            /\ Len(edges) = Len(known)
            /\ \A k \in DOMAIN edges :
                  /\ edges[k].source = known[k].drugA
                  /\ edges[k].target = known[k].drugB
                  /\ edges[k].severity = known[k].severity
                  /\ edges[k].severity # "Unknown"
                  /\ Some(edges[k].weight) = known[k].severity_score
                  /\ edges[k].description = CutTo(known[k].description, 150)
                  /\ Len(edges[k].description) <= 150

\* C13 witness: Digoxin, Metformin, Warfarin on the sample data: an Unknown
\* pair between two known ones, the first with a description of 152
\* characters that its edge carries cut to 150
C13_Witness ==
    /\ ReturnedReport
    /\ unique_drugs = <<Digoxin, Metformin, Warfarin>>
    /\ Len(result[1].graph_data.nodes) = 3
    /\ Len(result[1].graph_data.edges) = 2
    /\ result[1].pair_results[2].severity = "Unknown"
    /\ Len(result[1].pair_results[1].description) = 152
    /\ Len(result[1].graph_data.edges[1].description) = 150
    /\ result[1].graph_data.edges[2].source = Metformin

\* C14: a report carries the top-level key "warning" iff unknown_pairs > 0,
\* and its risk explanation carries the data-completeness caveat iff
\* unknown_pairs > 0; unknown_pairs being the number of Unknown pair results,
\* a report whose pairs are all known has neither.
C14_AdvisoryFlag ==
    ReturnedReport =>
        LET r == result[1]
            missing == {k \in DOMAIN r.pair_results : r.pair_results[k].severity = "Unknown"}
        IN  /\ r.unknown_pairs = Cardinality(missing)
            /\ "warning" \in DOMAIN r <=> r.unknown_pairs > 0
            /\ r.risk_explanation.caveat <=> r.unknown_pairs > 0
            /\ missing = {} => ("warning" \notin DOMAIN r /\ ~r.risk_explanation.caveat)

\* C14 witness: a report over three drugs with exactly one Unknown pair
\* carries the flag and the caveat
C14_Witness ==
    /\ ReturnedReport
    /\ Len(unique_drugs) = 3
    /\ result[1].unknown_pairs = 1
    /\ result[1].known_pairs = 2
    /\ "warning" \in DOMAIN result[1]
    /\ result[1].risk_explanation.caveat

\* the number of pair results of the given severity
CountOf(prs, severity) == Cardinality({k \in DOMAIN prs : prs[k].severity = severity})

\* C15 as stated: in every report, moderate_count >= 1 gives an overall_risk
\* of Moderate or Severe, and moderate_count = 0 gives Mild.
C15_AsStated ==
    ReturnedReport =>
        /\ result[1].moderate_count >= 1 => result[1].overall_risk \in {"Moderate", "Severe"}
        /\ result[1].moderate_count = 0 => result[1].overall_risk = "Mild"

\* C15: in every report, moderate_count is the number of Moderate pair
\* results; moderate_count >= 1 gives an overall_risk of Moderate or Severe;
\* moderate_count = 0 gives Severe when a pair is Severe, else Moderate when
\* three or more pairs are Mild, else Mild.
C15_OverallRiskAndModerateCount ==
    ReturnedReport =>
        LET r == result[1]
        IN  /\ r.moderate_count = CountOf(r.pair_results, "Moderate")
            /\ r.moderate_count >= 1 => r.overall_risk \in {"Moderate", "Severe"}
            /\ r.moderate_count = 0 =>
                  r.overall_risk =
                      IF CountOf(r.pair_results, "Severe") >= 1 THEN "Severe"
                      ELSE IF CountOf(r.pair_results, "Mild") >= 3 THEN "Moderate"
                      ELSE "Mild"

\* C15 witness: Atorvastatin, Digoxin, Metformin on the sample data: three
\* Mild pairs, no Moderate pair, overall_risk Moderate
C15_Witness ==
    /\ ReturnedReport
    /\ result[1].moderate_count = 0
    /\ result[1].severe_count = 0
    /\ result[1].mild_count = 3
    /\ result[1].overall_risk = "Moderate"

\* the positions of the known pair results of greatest severity_score
Heaviest(known) ==
    {k \in DOMAIN known :
        \A l \in DOMAIN known : known[l].severity_score[1] <= known[k].severity_score[1]}

\* the highest-risk pair the known pair results call for: the first of the
\* heaviest ones, None when no pair is known
ExpectedHighest(prs) ==
    LET known == KnownResults(prs)
    IN  IF known = <<>> THEN None
        ELSE LET first == CHOOSE k \in Heaviest(known) : \A l \in Heaviest(known) : k <= l
             IN  Some([drugA |-> known[first].drugA, drugB |-> known[first].drugB,
                       severity |-> known[first].severity,
                       weight |-> known[first].severity_score[1],
                       description |-> known[first].description])

\* C17: throughout the pair loop the tracked highest-risk pair is the first
\* pair, in enumeration order, whose weight is the greatest among the known
\* pairs seen so far, so a later pair of equal weight does not replace it;
\* the reported highest_risk_pair is that pair, is empty iff the call has no
\* known pair, and is never an Unknown pair.
C17_HighestRiskPair ==
    /\ pc = "pairs" =>
          /\ acc.highest_risk_pair = ExpectedHighest(acc.pair_results)
          /\ acc.highest_risk_pair # None =>
                acc.highest_severity_value = acc.highest_risk_pair[1].weight
    /\ ReturnedReport =>
          LET hrp == result[1].highest_risk_pair
              expected == ExpectedHighest(result[1].pair_results)
          IN  /\ DOMAIN hrp = {} <=> result[1].known_pairs = 0
              /\ DOMAIN hrp = {} <=> expected = None
              /\ DOMAIN hrp # {} =>
                    /\ hrp = expected[1]
                    /\ hrp.severity # "Unknown"

\* C17 witness: Ibuprofen, Warfarin, Digoxin on the sample data: the first
\* and the second pair are both Moderate, the first is reported
C17_Witness ==
    /\ ReturnedReport
    /\ unique_drugs = <<Ibuprofen, Warfarin, Digoxin>>
    /\ result[1].pair_results[1].severity = "Moderate"
    /\ result[1].pair_results[2].severity = "Moderate"
    /\ result[1].highest_risk_pair.drugA = Ibuprofen
    /\ result[1].highest_risk_pair.drugB = Warfarin

\* the entry the interaction map stores for a pair, in either direction
StoredEntry(drug_a, drug_b) ==
    IF drug_a \in DOMAIN interactions /\ drug_b \in DOMAIN interactions[drug_a]
    THEN Some(interactions[drug_a][drug_b])
    ELSE IF drug_b \in DOMAIN interactions /\ drug_a \in DOMAIN interactions[drug_b]
    THEN Some(interactions[drug_b][drug_a])
    ELSE None

\* the severity the specification states for a stored entry
StatedSeverity(entry) ==
    IF "severity" \notin DOMAIN entry THEN "Moderate"
    ELSE CASE entry.severity = "Critical" -> "Severe"
           [] entry.severity \in {"Mild", "Moderate", "Severe"} -> entry.severity
           [] OTHER -> "Moderate"

\* C18: every pair result of a pair with a stored entry has the severity
\* Severe for a stored Critical, the stored severity for Mild, Moderate or
\* Severe, and Moderate for any other or missing stored severity, with
\* severity_score 1, 2 or 3 for Mild, Moderate, Severe; Unknown is reported
\* exactly for the pairs without an entry; mild_count, moderate_count and
\* severe_count are the numbers of pair results of each severity and add up
\* to known_pairs.
C18_SeverityNormalization ==
    /\ pc = "pairs" =>
          /\ acc.mild_count = CountOf(acc.pair_results, "Mild")
          /\ acc.moderate_count = CountOf(acc.pair_results, "Moderate")
          /\ acc.severe_count = CountOf(acc.pair_results, "Severe")
          /\ acc.mild_count + acc.moderate_count + acc.severe_count = acc.known_pairs
    /\ ReturnedReport =>
          LET r == result[1]
              pr == r.pair_results
          IN  /\ \A k \in DOMAIN pr :
                    LET entry == StoredEntry(pr[k].drugA, pr[k].drugB)
                    IN  /\ pr[k].severity = "Unknown" <=> entry = None
                        /\ entry # None =>
                              /\ pr[k].severity = StatedSeverity(entry[1])
                              /\ pr[k].severity \in {"Mild", "Moderate", "Severe"}
                              /\ pr[k].severity_score = Some(StatedWeight(pr[k].severity))
              /\ r.mild_count = CountOf(pr, "Mild")
              /\ r.moderate_count = CountOf(pr, "Moderate")
              /\ r.severe_count = CountOf(pr, "Severe")
              /\ r.mild_count + r.moderate_count + r.severe_count = r.known_pairs

\* C18 witness: Metformin, Warfarin, Ibuprofen on the sample data: a stored
\* Critical reported as Severe, a stored Major reported as Moderate, a stored
\* Moderate reported unchanged
C18_Witness ==
    /\ ReturnedReport
    /\ unique_drugs = <<Metformin, Warfarin, Ibuprofen>>
    /\ StoredEntry(Metformin, Warfarin)[1].severity = "Critical"
    /\ result[1].pair_results[1].severity = "Severe"
    /\ StoredEntry(Metformin, Ibuprofen)[1].severity = "Major"
    /\ result[1].pair_results[2].severity = "Moderate"
    /\ result[1].severe_count = 1
    /\ result[1].moderate_count = 2

\* the call has the interaction map and the name index
Loaded == pc \in {"validate", "pairs", "done"}

\* C19: after load the name index has one entry per canonical drug of the
\* interaction map, keyed by the trimmed lower-case canonical name and
\* holding that name; hence resolving a canonical name as authored, or a
\* variant of it in another case or with blanks around it, gives that name.
C19_NameIndex ==
    Loaded =>
        /\ Cardinality(DOMAIN lower_to_canonical) = Cardinality(DOMAIN interactions)
        /\ \A c \in DOMAIN interactions :
              /\ lower(strip(c)) \in DOMAIN lower_to_canonical
              /\ lower_to_canonical[lower(strip(c))] = c
              /\ \A d \in {c, lower(c), <<" ">> \o c \o <<" ">>} :
                    LET step == ValidateEntry(<<>>, Str(d), lower_to_canonical)
                    IN  ~step.error /\ step.normalized = <<c>>

----------------------------------------------------------------------------
(* SpecConfidence: the confidence figures of a report, computed directly *)

\* total_pairs of a call over MAX_DRUGS drugs
MaxPairs == (MAX_DRUGS * (MAX_DRUGS - 1)) \div 2

InitConfidence ==
    /\ IdleService /\ IdleLazy
    /\ ratio \in {<<known, total>> \in (0..MaxPairs) \X (0..MaxPairs) : known <= total}
    /\ confidence = None
    /\ counts = <<0, 0, 0>> /\ risk = None
    /\ data_file = [state |-> "ok", items |-> SampleItems]
    /\ drug_list = <<>> /\ drug_doses = None /\ patient_context = None
    /\ pc = "idle"
    /\ IdleCall /\ IdleSecondCall /\ IdlePassCall

\* lines 251-252: confidence_percentage and _confidence_level of it
CallConfidence ==
    /\ confidence = None
    /\ confidence' =
          Some([percentage |-> ConfidencePercentage(ratio[1], ratio[2]),
                level |-> confidence_level(ConfidencePercentage(ratio[1], ratio[2]))])
    /\ UNCHANGED <<api_vars, lazy_vars, ratio, data_file, dosage_file, contra_file,
                   interactions_cache, lower_to_canonical_cache, dosage_cache,
                   contraindication_cache, drug_list, drug_doses, patient_context,
                   pc, interactions, lower_to_canonical, idx, normalized,
                   unique_drugs, pairs, acc, lookups, result, drug_list2, result2,
                   counts, risk, pass_result>>

NextConfidence == CallConfidence

SpecConfidence == InitConfidence /\ [][NextConfidence]_vars

\* C20: with known_pairs of total_pairs pairs known, total_pairs in 1..45,
\* confidence_level is High iff 100*known_pairs >= 80*total_pairs, Medium iff
\* 50*total_pairs <= 100*known_pairs < 80*total_pairs, and Low otherwise;
\* confidence_percentage is within half a hundredth of
\* known_pairs/total_pairs*100, and is at or above 50, or 80, exactly when the
\* unrounded ratio is; with total_pairs = 0 the percentage is 100.
C20_ConfidenceClassification ==
    confidence # None =>
        LET known == ratio[1]
            total == ratio[2]
            hundredths == confidence[1].percentage
            level == confidence[1].level
            off == hundredths * total - known * 100 * 100
        IN  /\ total = 0 => hundredths = 100 * 100
            /\ total > 0 =>
                  /\ 2 * off <= total /\ 2 * (0 - off) <= total
                  /\ hundredths >= 80 * 100 <=> 100 * known >= 80 * total
                  /\ hundredths >= 50 * 100 <=> 100 * known >= 50 * total
                  /\ level = "High" <=> 100 * known >= 80 * total
                  /\ level = "Medium" <=>
                        (50 * total <= 100 * known /\ 100 * known < 80 * total)
                  /\ level = "Low" <=> 100 * known < 50 * total

\* C20 witness: 8 of 10 pairs known is exactly 80 per cent, rated High
C20_Witness ==
    /\ ratio = <<8, 10>>
    /\ confidence = Some([percentage |-> 80 * 100, level |-> "High"])

\* C23: in every report each dosage warning names a drug of the normalized
\* drug list of the call; a dose entry for a drug that is not among the
\* checked drugs gives no warning, even with a dose above that drug's limit.
C23_DosageScopedToDrugs ==
    ReturnedReport =>
        \A k \in DOMAIN result[1].dosage_warnings :
            \E j \in DOMAIN unique_drugs :
                result[1].dosage_warnings[k].drug = unique_drugs[j]

----------------------------------------------------------------------------
(* Properties of the API process (SpecService) *)

\* the name index of the running service
ServiceIndex == lower_to_canonical_cache[1]

\* a requested name that is not blank and that the name index does not resolve
RequestUnresolved(d) == strip(d) # <<>> /\ lower(strip(d)) \notin DOMAIN ServiceIndex

\* the distinct canonical drugs the requested names resolve to
RequestResolved(drugs) ==
    {ServiceIndex[lower(strip(drugs[k]))] :
        k \in {j \in DOMAIN drugs : strip(drugs[j]) # <<>> /\ ~RequestUnresolved(drugs[j])}}

\* the aggregator error the requested names call for, None when there is none
ExpectedError(drugs) ==
    IF \E k \in DOMAIN drugs : RequestUnresolved(drugs[k])
    THEN Some("Drug not found in database")
    ELSE IF Cardinality(RequestResolved(drugs)) < MIN_DRUGS
    THEN Some("At least two valid drugs are required.")
    ELSE IF Cardinality(RequestResolved(drugs)) > MAX_DRUGS
    THEN Some("Maximum 10 drugs allowed per request.")
    ELSE None

\* C16: a request to POST /check-interactions, GET /drug/{name} or GET
\* /check-pair whose X-API-Key header is missing or is not the configured key
\* is answered with 401 and runs no lookup and no aggregation, whatever drugs
\* it names; GET /health is answered with 200 whatever the header; with the
\* configured key, a request whose drugs call for DrugNotFound, TooFewDrugs or
\* TooManyDrugs is answered with 400 and the error text, and any other with
\* 200 and a report.
C16_AuthenticationGate ==
    response # None =>
        LET rq == request[1]
            rs == response[1]
        IN  /\ rq.endpoint = "health" =>
                  /\ rs.status = 200
                  /\ rs.body = [status |-> "ok", service |-> "MediSync"]
            /\ (rq.endpoint # "health" /\ rq.x_api_key # Some(API_KEY)) =>
                  /\ rs.status = 401
                  /\ rs.body = "Invalid or missing API key"
                  /\ backend_calls = 0
            /\ (rq.endpoint # "health" /\ rq.x_api_key = Some(API_KEY)) =>
                  /\ rs.status # 401
                  /\ backend_calls = 1
            /\ (rq.endpoint \in {"check-interactions", "check-pair"}
                   /\ rq.x_api_key = Some(API_KEY)) =>
                  IF ExpectedError(rq.drugs) # None
                  THEN /\ rs.status = 400
                       /\ rs.body = ExpectedError(rq.drugs)[1]
                  ELSE /\ rs.status = 200
                       /\ "error" \notin DOMAIN rs.body
                       /\ rq.endpoint = "check-interactions" =>
                             Len(rs.body.pair_results) = rs.body.total_pairs

\* C16 witness: POST /check-interactions with a key that is not the
\* configured one and two drugs of the data source is answered with 401
C16_Witness ==
    /\ response # None
    /\ request[1].endpoint = "check-interactions"
    /\ request[1].x_api_key = Some("medisync-demo-key-2025")
    /\ request[1].drugs = <<Ibuprofen, Warfarin>>
    /\ ExpectedError(request[1].drugs) = None
    /\ response[1].status = 401
    /\ backend_calls = 0

----------------------------------------------------------------------------
(* SpecStores: the store operations called in any order while the data     *)
(* files change on disk                                                    *)

\* most reads of one data file
MaxReads == 2

\* the data files of SpecStores
StoreFiles ==
    [data : DataFiles,
     dosage : {[state |-> "ok", content |-> DosageContent], [state |-> "malformed"]},
     contra : {[state |-> "ok", content |-> ContraContent], [state |-> "missing"]}]

\* the arguments of the check_drug_interactions calls of SpecStores: a report
\* with both warning lists, an unresolved name, a dose entry named by a number
StoreCalls ==
    { [drugs |-> <<Str(Ibuprofen), Str(Warfarin)>>,
       drug_doses |-> Some(<<DoseItem(Some(Str(<<"i","b">>)), Some(Num(4)))>>),
       patient_context |-> Some((Pregnancy :> Bool(TRUE)))],
      [drugs |-> <<Str(Ibuprofen), Str(UnknownDrug)>>,
       drug_doses |-> None, patient_context |-> None],
      [drugs |-> <<Str(Warfarin), Str(Digoxin)>>,
       drug_doses |-> Some(<<DoseItem(Some(Num(5)), Some(Num(4)))>>),
       patient_context |-> Some((Pregnancy :> Bool(TRUE)))] }

InitStores ==
    /\ IdleService /\ IdleRatioCall /\ IdleLazy
    /\ \E f \in StoreFiles :
          data_file = f.data /\ dosage_file = f.dosage /\ contra_file = f.contra
    /\ interactions_cache = None /\ lower_to_canonical_cache = None
    /\ dosage_cache = None /\ contraindication_cache = None
    /\ drug_list = <<>> /\ drug_doses = None /\ patient_context = None
    /\ pc = "idle"
    /\ interactions = <<>> /\ lower_to_canonical = <<>>
    /\ idx = 0 /\ normalized = <<>> /\ unique_drugs = <<>>
    /\ pairs = <<>> /\ acc = InitAcc /\ lookups = 0 /\ result = None
    /\ IdleSecondCall /\ IdleRiskCall /\ IdlePassCall

\* the variables no store operation changes
store_frame == <<api_vars, ratio_vars, procs, pc, interactions, lower_to_canonical,
                 idx, normalized, unique_drugs, pairs, acc, lookups, drug_list2,
                 counts, risk, pass_result>>

\* the reads a guarded load makes: one when the cache is unset
LoadReads(cache) == IF cache = None THEN 1 ELSE 0

\* a data file is replaced on disk
ReplaceFile ==
    /\ \E f \in StoreFiles :
          /\ <<f.data, f.dosage, f.contra>> # <<data_file, dosage_file, contra_file>>
          /\ data_file' = f.data /\ dosage_file' = f.dosage /\ contra_file' = f.contra
    /\ UNCHANGED <<cache_vars, reads, drug_list, drug_doses, patient_context,
                   result, result2, store_frame>>

\* init_interaction_data(), called directly; an exception leaves the caches
CallInitInteractionData ==
    /\ reads.interactions + LoadReads(interactions_cache) <= MaxReads
    /\ \E got \in {init_interaction_data(interactions_cache, lower_to_canonical_cache,
                                         data_file)} :
          /\ interactions_cache' = got.icache
          /\ lower_to_canonical_cache' = got.lcache
    /\ reads' = [reads EXCEPT !.interactions = @ + LoadReads(interactions_cache)]
    /\ UNCHANGED <<data_file, dosage_file, contra_file, dosage_cache,
                   contraindication_cache, drug_list, drug_doses, patient_context,
                   result, result2, store_frame>>

\* get_cached_data(), called directly
CallGetCachedData ==
    /\ reads.interactions + LoadReads(interactions_cache) <= MaxReads
    /\ \E got \in {get_cached_data(interactions_cache, lower_to_canonical_cache,
                                   data_file)} :
          /\ interactions_cache' = got.icache
          /\ lower_to_canonical_cache' = got.lcache
    /\ reads' = [reads EXCEPT !.interactions = @ + LoadReads(interactions_cache)]
    /\ UNCHANGED <<data_file, dosage_file, contra_file, dosage_cache,
                   contraindication_cache, drug_list, drug_doses, patient_context,
                   result, result2, store_frame>>

\* load_dosage_limits()
CallLoadDosageLimits ==
    /\ dosage_cache' = load_dosage_limits(dosage_cache, dosage_file)
    /\ reads' = [reads EXCEPT !.dosage = @ + LoadReads(dosage_cache)]
    /\ UNCHANGED <<data_file, dosage_file, contra_file, interactions_cache,
                   lower_to_canonical_cache, contraindication_cache, drug_list,
                   drug_doses, patient_context, result, result2, store_frame>>

\* load_contraindications()
CallLoadContraindications ==
    /\ contraindication_cache' = load_contraindications(contraindication_cache, contra_file)
    /\ reads' = [reads EXCEPT !.contra = @ + LoadReads(contraindication_cache)]
    /\ UNCHANGED <<data_file, dosage_file, contra_file, interactions_cache,
                   lower_to_canonical_cache, dosage_cache, drug_list,
                   drug_doses, patient_context, result, result2, store_frame>>

\* init_dosage_contraindications(): load_dosage_limits(), load_contraindications()
CallInitDosageContraindications ==
    /\ dosage_cache' = load_dosage_limits(dosage_cache, dosage_file)
    /\ contraindication_cache' = load_contraindications(contraindication_cache, contra_file)
    /\ reads' = [reads EXCEPT !.dosage = @ + LoadReads(dosage_cache),
                              !.contra = @ + LoadReads(contraindication_cache)]
    /\ UNCHANGED <<data_file, dosage_file, contra_file, interactions_cache,
                   lower_to_canonical_cache, drug_list, drug_doses, patient_context,
                   result, result2, store_frame>>

\* where the value a check_drug_interactions call returns is kept: the first
\* call's in result, the repeated call's in result2, any other's nowhere
StoreOutcome(target, res) ==
    CASE target = "first" -> result' = Some(res) /\ UNCHANGED result2
      [] target = "again" -> result2' = Some(res) /\ UNCHANGED result
      [] OTHER -> UNCHANGED <<result, result2>>

\* one check_drug_interactions(c.drugs, c.drug_doses, c.patient_context)
\* call: it raises when the interaction data cannot be loaded; a store is
\* read when its loader is reached with the cache unset
CheckStep(c, target) ==
    /\ reads.interactions + LoadReads(interactions_cache) <= MaxReads
    /\ \E got \in {get_cached_data(interactions_cache, lower_to_canonical_cache,
                                   data_file)} :
          IF got.raised
          THEN /\ StoreOutcome(target, [raised |-> TRUE])
               /\ reads' = [reads EXCEPT !.interactions = @ + 1]
               /\ UNCHANGED cache_vars
          ELSE \E call \in {CallWith(c.drugs, c.drug_doses, c.patient_context)} :
                  /\ StoreOutcome(target, call.res)
                  /\ interactions_cache' = call.icache
                  /\ lower_to_canonical_cache' = call.lcache
                  /\ dosage_cache' = call.dcache
                  /\ contraindication_cache' = call.ccache
                  /\ reads' =
                        [interactions |->
                            reads.interactions + LoadReads(interactions_cache),
                         dosage |->
                            reads.dosage
                               + (IF call.dcache # None THEN LoadReads(dosage_cache) ELSE 0),
                         contra |->
                            reads.contra
                               + (IF call.ccache # None
                                  THEN LoadReads(contraindication_cache) ELSE 0)]

\* the first of two check_drug_interactions calls with the same arguments
CheckFirst ==
    /\ result = None
    /\ \E c \in StoreCalls :
          /\ drug_list' = c.drugs
          /\ drug_doses' = c.drug_doses
          /\ patient_context' = c.patient_context
          /\ CheckStep(c, "first")
    /\ UNCHANGED <<data_file, dosage_file, contra_file, store_frame>>

\* a check_drug_interactions call made in between, its result dropped
CheckOther ==
    /\ result # None
    /\ result2 = None
    /\ \E c \in StoreCalls : CheckStep(c, "other")
    /\ UNCHANGED <<data_file, dosage_file, contra_file, drug_list, drug_doses,
                   patient_context, store_frame>>

\* the second call, with the arguments of the first
CheckAgain ==
    /\ result # None
    /\ result2 = None
    /\ CheckStep([drugs |-> drug_list, drug_doses |-> drug_doses,
                  patient_context |-> patient_context], "again")
    /\ UNCHANGED <<data_file, dosage_file, contra_file, drug_list, drug_doses,
                   patient_context, store_frame>>

NextStores ==
    \/ ReplaceFile
    \/ CallInitInteractionData
    \/ CallGetCachedData
    \/ CallLoadDosageLimits
    \/ CallLoadContraindications
    \/ CallInitDosageContraindications
    \/ CheckFirst
    \/ CheckOther
    \/ CheckAgain

SpecStores == InitStores /\ [][NextStores]_vars

\* a cache that is set keeps its value and its data file is not read again
StoresKept ==
    /\ interactions_cache # None =>
          /\ UNCHANGED <<interactions_cache, lower_to_canonical_cache>>
          /\ reads'.interactions = reads.interactions
    /\ lower_to_canonical_cache # None => interactions_cache # None
    /\ dosage_cache # None =>
          /\ UNCHANGED dosage_cache
          /\ reads'.dosage = reads.dosage
    /\ contraindication_cache # None =>
          /\ UNCHANGED contraindication_cache
          /\ reads'.contra = reads.contra

\* a call that returned and a later call with the same arguments agree
ResultsAgree ==
    (result # None /\ "raised" \notin DOMAIN result[1] /\ result2 # None) =>
        result2 = result

\* C21: once a store's cache has been set, every later init_interaction_data,
\* get_cached_data, load_dosage_limits, load_contraindications,
\* init_dosage_contraindications and check_drug_interactions call, returning
\* or failing, leaves the cached interaction map, name index, dose-limit
\* store and contraindication store as they are and reads no data file
\* again, whatever has become of the files; so a call that returned and a
\* later call with the same arguments return the same result, whatever calls
\* were made in between.
C21_LoadedOnce == []ResultsAgree /\ [][StoresKept]_vars

\* C21 witness: the second of two calls that return a report with both
\* warning lists, made after every data file was replaced by one that does
\* not load, each file read once
C21_Witness ==
    /\ result2 # None
    /\ "error" \notin DOMAIN result2[1]
    /\ "raised" \notin DOMAIN result2[1]
    /\ result2[1].dosage_warnings # <<>>
    /\ result2[1].contraindication_warnings # <<>>
    /\ data_file.state = "missing"
    /\ dosage_file.state = "malformed"
    /\ contra_file.state = "missing"
    /\ reads = [interactions |-> 1, dosage |-> 1, contra |-> 1]

----------------------------------------------------------------------------
(* SpecLazy: threads calling get_cached_data() with the caches unset, one  *)
(* read or write of a module variable per step                             *)

\* number of threads
MaxThreads == 2

Threads == 1..MaxThreads

\* a thread entering get_cached_data
ThreadStart == [pc |-> "g1", loaded |-> None, seen_map |-> None, seen_index |-> None]

InitLazy ==
    /\ IdleService /\ IdleRatioCall
    /\ reads = [interactions |-> 0, dosage |-> 0, contra |-> 0]
    /\ procs = [t \in Threads |-> ThreadStart]
    /\ data_file \in DataFiles
    /\ dosage_file = [state |-> "ok", content |-> DosageContent]
    /\ contra_file = [state |-> "ok", content |-> ContraContent]
    /\ interactions_cache = None /\ lower_to_canonical_cache = None
    /\ dosage_cache = None /\ contraindication_cache = None
    /\ drug_list = <<>> /\ drug_doses = None /\ patient_context = None
    /\ pc = "idle"
    /\ interactions = <<>> /\ lower_to_canonical = <<>>
    /\ idx = 0 /\ normalized = <<>> /\ unique_drugs = <<>>
    /\ pairs = <<>> /\ acc = InitAcc /\ lookups = 0 /\ result = None
    /\ IdleSecondCall /\ IdleRiskCall /\ IdlePassCall

\* the variables no step of a thread changes
lazy_frame == <<api_vars, ratio_vars, data_file, dosage_file, contra_file, dosage_cache,
                contraindication_cache, drug_list, drug_doses, patient_context, pc,
                interactions, lower_to_canonical, idx, normalized, unique_drugs,
                pairs, acc, lookups, result, drug_list2, result2, counts, risk,
                pass_result>>

\* line 67, left operand: _interactions_cache is None
TestMap ==
    \E t \in Threads :
        /\ procs[t].pc = "g1"
        /\ procs' = [procs EXCEPT ![t].pc = IF interactions_cache = None THEN "i1" ELSE "g2"]
        /\ UNCHANGED <<interactions_cache, lower_to_canonical_cache, reads, lazy_frame>>

\* line 67, right operand: _lower_to_canonical_cache is None
TestIndex ==
    \E t \in Threads :
        /\ procs[t].pc = "g2"
        /\ procs' = [procs EXCEPT
                        ![t].pc = IF lower_to_canonical_cache = None THEN "i1" ELSE "g3"]
        /\ UNCHANGED <<interactions_cache, lower_to_canonical_cache, reads, lazy_frame>>

\* line 60: init_interaction_data tests _interactions_cache is None
TestInit ==
    \E t \in Threads :
        /\ procs[t].pc = "i1"
        /\ procs' = [procs EXCEPT ![t].pc = IF interactions_cache = None THEN "i2" ELSE "g3"]
        /\ UNCHANGED <<interactions_cache, lower_to_canonical_cache, reads, lazy_frame>>

\* line 61, right-hand side: load_interaction_data(); an exception leaves the call
LoadData ==
    \E t \in Threads :
        /\ procs[t].pc = "i2"
        /\ \E loaded \in {load_interaction_data(data_file)} :
              procs' = [procs EXCEPT
                           ![t].pc = IF loaded.raised THEN "raised" ELSE "i3",
                           ![t].loaded = IF loaded.raised THEN None ELSE Some(loaded)]
        /\ reads' = [reads EXCEPT !.interactions = @ + 1]
        /\ UNCHANGED <<interactions_cache, lower_to_canonical_cache, lazy_frame>>

\* line 61, first target: _interactions_cache is assigned
StoreMap ==
    \E t \in Threads :
        /\ procs[t].pc = "i3"
        /\ interactions_cache' = Some(procs[t].loaded[1].interactions)
        /\ procs' = [procs EXCEPT ![t].pc = "i4"]
        /\ UNCHANGED <<lower_to_canonical_cache, reads, lazy_frame>>

\* line 61, second target: _lower_to_canonical_cache is assigned
StoreIndex ==
    \E t \in Threads :
        /\ procs[t].pc = "i4"
        /\ lower_to_canonical_cache' = Some(procs[t].loaded[1].lower_to_canonical)
        /\ procs' = [procs EXCEPT ![t].pc = "g3"]
        /\ UNCHANGED <<interactions_cache, reads, lazy_frame>>

\* line 69, first element of the returned tuple
ReturnMap ==
    \E t \in Threads :
        /\ procs[t].pc = "g3"
        /\ procs' = [procs EXCEPT ![t].pc = "g4", ![t].seen_map = interactions_cache]
        /\ UNCHANGED <<interactions_cache, lower_to_canonical_cache, reads, lazy_frame>>

\* line 69, second element; the call returns
ReturnIndex ==
    \E t \in Threads :
        /\ procs[t].pc = "g4"
        /\ procs' = [procs EXCEPT ![t].pc = "returned",
                                  ![t].seen_index = lower_to_canonical_cache]
        /\ UNCHANGED <<interactions_cache, lower_to_canonical_cache, reads, lazy_frame>>

NextLazy ==
    \/ TestMap \/ TestIndex \/ TestInit \/ LoadData
    \/ StoreMap \/ StoreIndex \/ ReturnMap \/ ReturnIndex

SpecLazy == InitLazy /\ [][NextLazy]_vars

\* C22: every get_cached_data call that returns, made by one of several
\* threads while the interaction cache is unset, returns an interaction map
\* and a name index that are both set and come from one load of the data
\* file; no caller proceeds with a map and no index.
C22_LazyInitSafe ==
    \A t \in DOMAIN procs :
        procs[t].pc = "returned" =>
            /\ procs[t].seen_map # None
            /\ procs[t].seen_index # None
            /\ \E loaded \in {load_interaction_data(data_file)} :
                  /\ procs[t].seen_map = Some(loaded.interactions)
                  /\ procs[t].seen_index = Some(loaded.lower_to_canonical)

----------------------------------------------------------------------------
(* SpecPasses: a call with doses, and the same call without them *)

\* the drug_doses arguments: those of the overlay calls and an item that is
\* no dict
PassDoses == OverlayDoses \cup {Some(<<Str(Ibuprofen)>>)}

InitPasses ==
    /\ IdleService /\ IdleRatioCall /\ IdleLazy
    /\ data_file = [state |-> "ok", items |-> SampleItems]
    /\ dosage_file \in DosageFiles
    /\ contra_file = [state |-> "ok", content |-> ContraContent]
    /\ interactions_cache = None /\ lower_to_canonical_cache = None
    /\ dosage_cache = None /\ contraindication_cache = None
    /\ drug_list \in OverlayLists
    /\ drug_doses \in PassDoses
    /\ patient_context \in OverlayContexts
    /\ pc = "idle"
    /\ interactions = <<>> /\ lower_to_canonical = <<>>
    /\ idx = 0 /\ normalized = <<>> /\ unique_drugs = <<>>
    /\ pairs = <<>> /\ acc = InitAcc /\ lookups = 0 /\ result = None
    /\ IdleSecondCall /\ IdleRiskCall /\ IdlePassCall

\* check_drug_interactions(drug_list, drug_doses=None, patient_context)
CallWithoutDoses ==
    /\ result # None
    /\ result2 = None
    /\ \E call \in {CallWith(drug_list, None, patient_context)} :
          /\ result2' = Some(call.res)
          /\ interactions_cache' = call.icache
          /\ lower_to_canonical_cache' = call.lcache
          /\ dosage_cache' = call.dcache
          /\ contraindication_cache' = call.ccache
    /\ drug_list2' = drug_list
    /\ UNCHANGED <<data_file, dosage_file, contra_file, drug_list, drug_doses,
                   patient_context, pc, interactions, lower_to_canonical, idx,
                   normalized, unique_drugs, pairs, acc, lookups, result, counts,
                   risk, pass_result>>
    /\ UNCHANGED <<api_vars, ratio_vars, lazy_vars>>

NextPasses == CallFirst \/ CallWithoutDoses

SpecPasses == InitPasses /\ [][NextPasses]_vars

\* C24: for a drug list, a patient context and a contraindication store, the
\* contraindication_warnings of the report are the same whatever the doses
\* argument is (absent, empty, well formed, or holding an entry named by a
\* number or an item that is no dict) and whatever the dose-limit store
\* holds: they are those of the call made without doses.
C24_PassesIndependent ==
    (result # None /\ result2 # None /\ "error" \notin DOMAIN result[1]) =>
        result[1].contraindication_warnings = result2[1].contraindication_warnings

----------------------------------------------------------------------------
(* SpecMono: a call on a drug list, and a call on the list with one more   *)
(* drug at its end                                                         *)

\* longest first drug list of SpecMono
MaxMonoLen == 3

\* the drugs the lists of SpecMono are made of
MonoNames == {Ibuprofen, Warfarin, Digoxin, Atorvastatin, Metformin}

\* the lists of 2..MaxMonoLen distinct drugs
MonoLists ==
    {l \in UNION {[1..n -> MonoNames] : n \in 2..MaxMonoLen} :
        \A i, j \in DOMAIN l : i # j => l[i] # l[j]}

InitMono ==
    /\ IdleService /\ IdleRatioCall /\ IdleLazy
    /\ data_file \in {f \in DataFiles : f.state = "ok"}
    /\ dosage_file = [state |-> "ok", content |-> DosageContent]
    /\ contra_file = [state |-> "ok", content |-> ContraContent]
    /\ interactions_cache = None /\ lower_to_canonical_cache = None
    /\ dosage_cache = None /\ contraindication_cache = None
    /\ \E l \in MonoLists, d \in MonoNames :
          /\ drug_list = [k \in DOMAIN l |-> Str(l[k])]
          /\ drug_list2 = Append(drug_list, Str(d))
    /\ drug_doses = None /\ patient_context = None
    /\ pc = "idle"
    /\ interactions = <<>> /\ lower_to_canonical = <<>>
    /\ idx = 0 /\ normalized = <<>> /\ unique_drugs = <<>>
    /\ pairs = <<>> /\ acc = InitAcc /\ lookups = 0
    /\ result = None /\ result2 = None
    /\ IdleRiskCall /\ IdlePassCall

SpecMono == InitMono /\ [][NextEquiv]_vars

\* the order Mild < Moderate < Severe
RiskRank(tier) ==
    CASE tier = "Mild" -> 1
      [] tier = "Moderate" -> 2
      [] tier = "Severe" -> 3

\* C25: when a list of distinct resolvable drugs and the list followed by one
\* more resolvable drug both give a report, the overall_risk of the longer
\* list is greater than or equal to that of the shorter one in the order
\* Mild < Moderate < Severe, and mild_count, moderate_count, severe_count,
\* known_pairs, unknown_pairs and total_score are each greater than or equal
\* to their values for the shorter list.
C25_MonotoneRisk ==
    (/\ result # None /\ result2 # None
     /\ "error" \notin DOMAIN result[1]
     /\ "error" \notin DOMAIN result2[1]) =>
        LET short == result[1]
            long == result2[1]
        IN  /\ RiskRank(long.overall_risk) >= RiskRank(short.overall_risk)
            /\ long.mild_count >= short.mild_count
            /\ long.moderate_count >= short.moderate_count
            /\ long.severe_count >= short.severe_count
            /\ long.known_pairs >= short.known_pairs
            /\ long.unknown_pairs >= short.unknown_pairs
            /\ long.total_score >= short.total_score

\* C25 witness: Ibuprofen, Digoxin, Metformin (two Moderate pairs, Severe)
\* followed by Atorvastatin (a third Moderate pair and two Mild ones, Severe)
C25_Witness ==
    /\ result # None /\ result2 # None
    /\ drug_list = <<Str(Ibuprofen), Str(Digoxin), Str(Metformin)>>
    /\ drug_list2 = Append(drug_list, Str(Atorvastatin))
    /\ "error" \notin DOMAIN result[1]
    /\ "error" \notin DOMAIN result2[1]
    /\ result[1].moderate_count = 2
    /\ result[1].overall_risk = "Severe"
    /\ result2[1].moderate_count = 3
    /\ result2[1].mild_count > result[1].mild_count
    /\ result2[1].overall_risk = "Severe"

====
